---- MODULE Spec2Model ----
(***************************************************************************)
(* Runtime model of the module federation isolation plugin: the webpack    *)
(* registries of the federated hosts (module cache c, factory table m),    *)
(* the runtime manifest of each host (red, pkgMatch, hostName), the        *)
(* resolveShare hook with its loading promise, and the translation         *)
(* require created by createTranslationRequire.  JavaScript runs on one    *)
(* thread, so the synchronous part of every operation is a call stack      *)
(* that is unwound before the next operation starts.                       *)
(***************************************************************************)
EXTENDS Integers, Sequences, FiniteSets, TLC

VARIABLES
  c,          \* c[h]: module cache of host h (key -> module record reference)
  m,          \* m[h]: factory table of host h (key -> factory)
  mods,       \* heap of module records, a reference is an index into it
  red,        \* red[h]: redirections of the manifest of host h
  pkgMatch,   \* pkgMatch[h]: memoized version matches of host h
  hostReq,    \* hostReq[h]: __webpack_require__ exposed on the federation host
  hostName,   \* hostName[h]: federation.isolation.hostName
  shareLib,   \* lib of every shared entry of the share scope
  loads,      \* the loads started by resolveShare, in order
  stack,      \* call stack of the running synchronous operation
  ret,        \* value handed back by the call that just returned
  results,    \* what the callers of the top-level operations received (a set)
  count,      \* number of top-level calls made so far, by kind
  options,    \* options[h]: RuntimePluginOptions the plugin of h was built with
  trace,      \* what the running operation did so far: factories entered and
              \* left, and the exports every require call handed to its caller
  steps,      \* number of steps the running operation has taken so far
  world,      \* the deployment explored: which bundles and shared entries exist
  build       \* the build of one bundle: its manifest, raw, emitted and expanded

vars == <<c, m, mods, red, pkgMatch, hostReq, hostName, shareLib, loads,
          stack, ret, results, count, options, trace, steps, world, build>>

-----------------------------------------------------------------------------
(* Bounds of the exploration *)

MaxLoads == 3
MaxCalls == 2
MaxNative == 1
MaxOpenLoads == 2
MaxOverrideLoads == 2
MaxClashLoads == 2
MaxModules == 3
MaxPlugins == 3
MaxOrderLoads == 2
MaxFaultyLoads == 3
MaxResolverCalls == 2
MaxForeignLoads == 2
MaxNumericLoads == 2
MaxConsumesCalls == 2
MaxBareLoads == 2

-----------------------------------------------------------------------------
(* Program constants *)

UseOrigin == 0
Isolate == 10
ReuseOwn == 20
Strategies == {UseOrigin, Isolate, ReuseOwn}

Null == "null"
Undef == "undefined"
NoRet == 0

-----------------------------------------------------------------------------
(* The federated hosts and the bundles they were built from *)

\* the bundles built with the plugin: their runtime carries a manifest
\* (federation.isolation)
ManifestHosts == {"H1", "H2"}

\* deployment "core": two bundles built with the plugin. Deployment "open"
\* adds bundle H3, whose runtime carries no manifest, shared entries provided
\* outside webpack, and loads whose scope carries no placeholder mark
\* Deployment "override": the two bundles, H1 configured with per-package
\* overrides and consuming one more package
\* Deployment "clash": the two bundles, built so that a module of H2 has the
\* module id of a module of H1
\* Deployment "order": the two bundles, the versions of lib in H1's manifest
\* in either order and with any of the recorded ranges; module v of H1
\* requires module a of its bundle, module y of H2 requires the placeholder
\* before it requires x
\* Deployment "foreign": the two bundles and the bundle H3 built without the
\* plugin, whose lib H1 consumes; the strategy of H2 is varied
\* Deployment "faulty": the two bundles; the code of module y of H2 throws,
\* and the getter of one shared entry of H2 rejects
\* Deployment "bare": as "order", with versions of lib for which no range
\* was recorded
\* Deployment "numeric": the two bundles built with numeric module ids; the
\* module of util in H1 has the id 0
ClosedWorlds == {"core", "override", "clash", "order", "faulty", "numeric", "bare"}
Hosts == IF world \in ClosedWorlds THEN ManifestHosts ELSE ManifestHosts \cup {"H3"}

\* ownRequire.federation.isolation is present
HasIsolation(h) == h \in ManifestHosts

\* __webpack_modules__ of each bundle: module id -> the ids its code requires
WebpackModules(h) ==
  CASE h = "H1" /\ world = "clash" -> ("a" :> <<>>) @@ ("a3" :> <<>>) @@ ("v" :> <<>>)
    [] h = "H1" /\ world \in {"order", "bare"} ->
         ("a" :> <<>>) @@ ("a3" :> <<>>) @@ ("v" :> <<"a">>)
    [] h = "H1" /\ world = "numeric" -> ("a" :> <<>>) @@ ("a3" :> <<>>) @@ ("0" :> <<>>)
    [] h = "H1" -> ("a" :> <<>>) @@ ("a3" :> <<>>) @@ ("v" :> <<"q">>)
    [] h = "H2" /\ world = "clash" -> ("x" :> <<"v", "p">>) @@ ("v" :> <<>>)
    [] h = "H2" /\ world \in {"order", "bare"} ->
         ("x" :> <<"y", "y">>) @@ ("y" :> <<"p", "x", "y">>)
    [] h = "H2" -> ("x" :> <<"y", "y">>) @@ ("y" :> <<"x", "y", "p">>)
    [] h = "H3" -> ("z" :> <<>>)
    [] OTHER -> << >>

\* manifest.pkg after expansion, versions in insertion order
ManifestPkg(h) ==
  IF ~HasIsolation(h) THEN << >>
  ELSE IF world \in {"order", "bare"}
  THEN IF h = "H1"
       THEN ("lib" :> build.versions)
            @@ ("util" :> << [version |-> "1.0.0", rangesIn |-> <<"^1.0.0">>,
                              paths |-> ("index.js" :> "v")] >>)
       ELSE ("lib" :> << [version |-> "1.2.0", rangesIn |-> build.ranges,
                          paths |-> ("index.js" :> "x") @@ ("y.js" :> "y")] >>)
  ELSE IF h = "H1"
  THEN ("lib" :> << [version |-> "1.0.0", rangesIn |-> <<"^1.0.0">>,
                     paths |-> ("index.js" :> "a")],
                    [version |-> "1.3.0", rangesIn |-> <<"^1.3.0">>,
                     paths |-> ("index.js" :> "a3")] >>)
       @@ ("util" :> << [version |-> "1.0.0", rangesIn |-> <<"^1.0.0">>,
                         paths |-> ("index.js" :> IF world = "numeric" THEN "0" ELSE "v")] >>)
  ELSE ("lib" :> << [version |-> "1.2.0", rangesIn |-> <<"^1.2.0">>,
                     paths |-> ("index.js" :> "x")
                               @@ ("y.js" :> IF world = "clash" THEN "v" ELSE "y")] >>)

\* manifest.red as embedded at build time: placeholder -> local fallback id
ManifestRed(h) ==
  IF ~HasIsolation(h) THEN << >>
  ELSE IF h = "H1"
  THEN ("q" :> [mid |-> "a", webpackRequire |-> Undef])
       @@ (IF world = "override" THEN ("k" :> [mid |-> Null, webpackRequire |-> Undef])
           ELSE << >>)
  ELSE ("p" :> [mid |-> Null, webpackRequire |-> Undef])

\* package consumed through each placeholder (moduleToHandlerMapping shareKey)
PlaceholderPkg(h) ==
  CASE h = "H1" -> ("q" :> "lib")
                   @@ (IF world = "override" THEN ("k" :> "constructor") ELSE << >>)
    [] h = "H2" -> ("p" :> "util")
    [] OTHER -> << >>

\* the share scope: who provides which version of a package with which module,
\* and whether the getter of the entry carries the provided module id
CoreEntries ==
  { [pkgName |-> "lib", version |-> "1.0.0", from |-> "H1", mid |-> "a",
     providedModuleId |-> Undef],
    [pkgName |-> "lib", version |-> "1.2.0", from |-> "H2", mid |-> "x",
     providedModuleId |-> "x"],
    [pkgName |-> "util", version |-> "1.0.0", from |-> "H1", mid |-> "v",
     providedModuleId |-> "v"] }

\* values handed out by factories that are no module of any bundle
\* (shared: { lib: () => value } of the federation runtime)
ValueIds == {"obj"}

\* entries of the open deployment: module z of the bundle without manifest,
\* a value registered under a name no federation instance carries, and a
\* value registered by H2
OpenEntries ==
  { [pkgName |-> "lib", version |-> "2.0.0", from |-> "H3", mid |-> "z",
     providedModuleId |-> Undef],
    [pkgName |-> "lib", version |-> "2.1.0", from |-> "Hx", mid |-> "obj",
     providedModuleId |-> Undef],
    [pkgName |-> "lib", version |-> "2.2.0", from |-> "H2", mid |-> "obj",
     providedModuleId |-> Undef] }

\* entry of the deployment with overrides: a package whose name is the name
\* of a member every object inherits, registered by H2
OverrideEntries ==
  { [pkgName |-> "constructor", version |-> "1.0.0", from |-> "H2", mid |-> "obj",
     providedModuleId |-> Undef] }

\* entry of the faulty deployment: its getter returns a rejected promise
FaultyEntries ==
  { [pkgName |-> "lib", version |-> "1.9.0", from |-> "H2", mid |-> "x",
     providedModuleId |-> "x"] }

\* resolvedDependency.get() rejects
GetterRejects(e) == world = "faulty" /\ e \in FaultyEntries

\* the code of module mid of bundle h throws when it is run
Throws(h, mid) == world = "faulty" /\ h = "H2" /\ mid = "y"

\* entry of the deployment with a bundle built without the plugin: its lib
ForeignEntries ==
  { [pkgName |-> "lib", version |-> "2.0.0", from |-> "H3", mid |-> "z",
     providedModuleId |-> Undef] }

\* entries of the deployment with numeric module ids: util is module 0 of H1
NumericEntries ==
  { [pkgName |-> "lib", version |-> "1.0.0", from |-> "H1", mid |-> "a",
     providedModuleId |-> Undef],
    [pkgName |-> "lib", version |-> "1.2.0", from |-> "H2", mid |-> "x",
     providedModuleId |-> "x"],
    [pkgName |-> "util", version |-> "1.0.0", from |-> "H1", mid |-> "0",
     providedModuleId |-> "0"] }

SharedEntries ==
  CASE world = "core" -> CoreEntries
    [] world = "numeric" -> NumericEntries
    [] world = "override" -> CoreEntries \cup OverrideEntries
    [] world = "clash" -> CoreEntries
    [] world = "order" -> CoreEntries
    [] world = "bare" -> CoreEntries
    [] world = "faulty" -> CoreEntries \cup FaultyEntries
    [] world = "foreign" -> CoreEntries \cup ForeignEntries
    [] OTHER -> CoreEntries \cup OpenEntries

\* args.scope of a load: whether it carries the mark '/mfi/scope/' that
\* beforeLoadShare puts in front of the scopes of a consume-shared module
ScopeMarks == IF world \in ClosedWorlds \cup {"foreign"} THEN {TRUE} ELSE {TRUE, FALSE}

\* the bundles whose strategy is varied; every other bundle uses UseOrigin
StrategyHosts ==
  IF world = "core" THEN ManifestHosts ELSE IF world = "foreign" THEN {"H2"} ELSE {"H1"}

\* the loads explored in a deployment
LoadBound ==
  CASE world = "core" -> MaxLoads
    [] world = "override" -> MaxOverrideLoads
    [] world = "clash" -> MaxClashLoads
    [] world = "order" -> MaxOrderLoads
    [] world = "bare" -> MaxBareLoads
    [] world = "faulty" -> MaxFaultyLoads
    [] world = "foreign" -> MaxForeignLoads
    [] world = "numeric" -> MaxNumericLoads
    [] OTHER -> MaxOpenLoads

\* semver/functions/satisfies on the versions and ranges of the bundles
semverSatisfies(version, range) ==
  \/ range = "^1.0.0" /\ version \in {"1.0.0", "1.2.0", "1.3.0"}
  \/ range = "^1.2.0" /\ version \in {"1.2.0", "1.3.0"}
  \/ range = "^1.3.0" /\ version \in {"1.3.0"}


-----------------------------------------------------------------------------
(* JavaScript objects used as maps: a function whose domain is the key set *)

EmptyFn == [k \in {} |-> 0]
Has(f, k) == k \in DOMAIN f
Put(f, k, v) == [x \in (DOMAIN f) \cup {k} |-> IF x = k THEN v ELSE f[x]]
Del(f, k) == [x \in (DOMAIN f) \ {k} |-> f[x]]
SeqRange(s) == {s[i] : i \in DOMAIN s}

\* Array.prototype.find: index of the first element satisfying P, 0 if none
FindFirst(s, P(_)) ==
  IF \E i \in DOMAIN s : P(s[i])
  THEN CHOOSE i \in DOMAIN s : P(s[i]) /\ \A j \in 1..(i - 1) : ~P(s[j])
  ELSE 0

\* truthiness of a module id (string | number | null | undefined); the id "0"
\* stands for the number 0
Truthy(id) == id \notin {Null, Undef, "", "0"}

-----------------------------------------------------------------------------
(* Derived indexes built by initiateRuntimeManifestIfPresent *)

UidEntries(h) ==
  UNION { UNION { { [pkgName |-> p,
                     pkgVersion |-> ManifestPkg(h)[p][i].version,
                     modulePath |-> path,
                     mid |-> ManifestPkg(h)[p][i].paths[path]]
                    : path \in DOMAIN ManifestPkg(h)[p][i].paths }
                  : i \in DOMAIN ManifestPkg(h)[p] }
          : p \in DOMAIN ManifestPkg(h) }

HasUid(h, mid) == \E e \in UidEntries(h) : e.mid = mid
midToUid(h, mid) == CHOOSE e \in UidEntries(h) : e.mid = mid

pkgVersions(h, pkgName) ==
  IF Has(ManifestPkg(h), pkgName) THEN ManifestPkg(h)[pkgName] ELSE << >>

\* pkg[pkgName][version][1][modulePath], undefined when the path is missing
PkgModuleId(h, pkgName, version, modulePath) ==
  LET vs == pkgVersions(h, pkgName)
      i == FindFirst(vs, LAMBDA e : e.version = version)
  IN IF i > 0 /\ Has(vs[i].paths, modulePath) THEN vs[i].paths[modulePath]
     ELSE Undef

-----------------------------------------------------------------------------
(* Requires, factories and stack frames *)

NoReq == [kind |-> "none", origin |-> "", own |-> "", ns |-> "", strategy |-> 0]

\* the __webpack_require__ of host h
NativeReq(h) ==
  [kind |-> "native", origin |-> h, own |-> "", ns |-> "", strategy |-> 0]

\* the Proxy returned by createTranslationRequire; applying it is TransCall
createTranslationRequire(ownRequire, originalOriginRequire, isolationNamespace, strategy) ==
  [kind |-> "patched", origin |-> originalOriginRequire, own |-> ownRequire,
   ns |-> isolationNamespace, strategy |-> strategy]

\* a lib factory () => exports: calls require req on module id mid
NoLib == [req |-> NoReq, mid |-> ""]
Lib(req, mid) == [req |-> req, mid |-> mid]

\* a function handing out a value that is no module of any bundle
ValueReq == [kind |-> "value", origin |-> "", own |-> "", ns |-> "", strategy |-> 0]

\* the factory registered by a provider: () => providerRequire(mid), or a
\* function handing out a value
OriginalFactory(e) ==
  IF e.mid \in ValueIds THEN Lib(ValueReq, e.mid) ELSE Lib(NativeReq(e.from), e.mid)

UndefFactory == [kind |-> "undef", host |-> "", mid |-> "", req |-> NoReq, lib |-> NoLib]
CodeFactory(h, mid) == [kind |-> "code", host |-> h, mid |-> mid, req |-> NoReq, lib |-> NoLib]
ConsumeFactory(h, id, lib) == [kind |-> "consume", host |-> h, mid |-> id, req |-> NoReq, lib |-> lib]

\* the factory handed back as it is: its code keeps the require of its bundle
patchModuleFactoryUnpatched(moduleFactory, patchedRequire) == moduleFactory

\* (module, exports) => moduleFactory(module, exports, patchedRequire)
patchModuleFactory(moduleFactory, patchedRequire) ==
  IF moduleFactory.kind = "code" /\ moduleFactory.req = NoReq
  THEN [moduleFactory EXCEPT !.req = patchedRequire]
  ELSE moduleFactory

F0 == [kind |-> "", host |-> "", key |-> "", rec |-> 0, pc |-> 0, req |-> NoReq,
       fhost |-> "", fmid |-> "", own |-> "", iso |-> "", ownKey |-> "",
       load |-> 0, lib |-> NoLib]

St == [c |-> c, m |-> m, mods |-> mods, pkgMatch |-> pkgMatch]
Out(st, push, r, threw) == [st |-> st, push |-> push, ret |-> r, threw |-> threw]
PushBelow(frame, out) == [out EXCEPT !.push = <<frame>> \o @]

-----------------------------------------------------------------------------
(* __webpack_require__(moduleId) of host h *)

NativeCall(st, h, k) ==
  IF Has(st.c[h], k)
  THEN Out(st, << >>, st.mods[st.c[h][k]].exports, FALSE)
  ELSE
    LET rec == Len(st.mods) + 1
        f == IF Has(st.m[h], k) THEN st.m[h][k] ELSE UndefFactory
        module == [id |-> k, reg |-> h, loaded |-> FALSE, exports |-> rec,
                   fhost |-> IF f.kind = "code" THEN f.host ELSE "",
                   fmid |-> IF f.kind = "code" THEN f.mid ELSE "", via |-> f.req]
        st1 == [st EXCEPT !.c[h] = Put(@, k, rec), !.mods = Append(@, module)]
        fr == [F0 EXCEPT !.host = h, !.key = k, !.rec = rec]
    IN CASE f.kind = "code" ->
              Out(st1, << [fr EXCEPT !.kind = "code", !.pc = 1,
                             !.req = IF f.req = NoReq THEN NativeReq(h) ELSE f.req,
                             !.fhost = f.host, !.fmid = f.mid] >>, NoRet, FALSE)
         [] f.kind = "consume" ->
              \* the consume factory drops the cache entry of its placeholder,
              \* then calls the lib
              Out([st1 EXCEPT !.c[h] = Del(@, f.mid)],
                  << [fr EXCEPT !.kind = "consume", !.lib = f.lib] >>, NoRet, FALSE)
         [] OTHER -> Out(st1, << >>, NoRet, TRUE)

-----------------------------------------------------------------------------
(* The apply trap of the translation require *)

\* originPackageVersions.find(([version]) => version === pkgVersion) is defined
HasVersion(h, pkgName, pkgVersion) ==
  \E j \in DOMAIN pkgVersions(h, pkgName) : pkgVersions(h, pkgName)[j].version = pkgVersion

\* the ranges recorded for version pkgVersion of the package in host h
RangesIn(h, pkgName, pkgVersion) ==
  UNION { SeqRange(pkgVersions(h, pkgName)[i].rangesIn) :
            i \in { j \in DOMAIN pkgVersions(h, pkgName) :
                      pkgVersions(h, pkgName)[j].version = pkgVersion } }

\* the version at index i of a version list, Null for index 0 (nothing found)
VersionAt(versions, i) == IF i = 0 THEN Null ELSE versions[i].version

\* the first own version whose recorded ranges the origin version satisfies,
\* taken although the own module of that version is already loaded
LoadedCompatibleDeclared(st, own, origin, uid) ==
  LET found == VersionAt(pkgVersions(own, uid.pkgName),
                 FindFirst(pkgVersions(own, uid.pkgName),
                   LAMBDA e : \A range \in SeqRange(e.rangesIn) :
                                semverSatisfies(uid.pkgVersion, range)))
  IN IF found # Null
        /\ Has(st.c[own], PkgModuleId(own, uid.pkgName, found, uid.modulePath))
     THEN found ELSE Null

\* the last own version satisfying every range recorded for the origin
\* version, if its module at the same path is in the own cache
LoadedCompatibleLast(st, own, origin, uid) ==
  LET vs == pkgVersions(own, uid.pkgName)
      sat == { i \in DOMAIN vs :
                 /\ HasVersion(origin, uid.pkgName, uid.pkgVersion)
                 /\ \A range \in RangesIn(origin, uid.pkgName, uid.pkgVersion) :
                      semverSatisfies(vs[i].version, range) }
      found == IF sat = {} THEN Null
               ELSE vs[CHOOSE i \in sat : \A j \in sat : j <= i].version
  IN IF found # Null
        /\ Has(st.c[own], PkgModuleId(own, uid.pkgName, found, uid.modulePath))
     THEN found ELSE Null

\* "If a compatible module is already loaded, use it": the first own version
\* satisfying every range recorded for the origin version, if its module at
\* the same path is in the own cache
LoadedCompatible(st, own, origin, uid) ==
  LET found == VersionAt(pkgVersions(own, uid.pkgName),
                 FindFirst(pkgVersions(own, uid.pkgName),
                   LAMBDA e : /\ HasVersion(origin, uid.pkgName, uid.pkgVersion)
                              /\ \A range \in RangesIn(origin, uid.pkgName, uid.pkgVersion) :
                                   semverSatisfies(e.version, range)))
  IN IF found # Null
        /\ Has(st.c[own], PkgModuleId(own, uid.pkgName, found, uid.modulePath))
     THEN found ELSE Null

\* the first own version whose recorded ranges the origin version satisfies,
\* if its module at the same path is not in the own cache
UnloadedCompatible(st, own, uid) ==
  LET found == VersionAt(pkgVersions(own, uid.pkgName),
                 FindFirst(pkgVersions(own, uid.pkgName),
                   LAMBDA e : \A range \in SeqRange(e.rangesIn) :
                                semverSatisfies(uid.pkgVersion, range)))
  IN IF found # Null
        /\ ~Has(st.c[own], PkgModuleId(own, uid.pkgName, found, uid.modulePath))
     THEN found ELSE Null

\* the origin version recorded as the match when the search finds nothing
MatchVersionOriginDefault(st, own, origin, uid) ==
  IF LoadedCompatible(st, own, origin, uid) # Null
  THEN LoadedCompatible(st, own, origin, uid)
  ELSE IF UnloadedCompatible(st, own, uid) # Null
  THEN UnloadedCompatible(st, own, uid)
  ELSE uid.pkgVersion

\* the version search of strategy ReuseOwn
MatchVersion(st, own, origin, uid) ==
  IF LoadedCompatible(st, own, origin, uid) # Null
  THEN LoadedCompatible(st, own, origin, uid)
  ELSE UnloadedCompatible(st, own, uid)

\* the namespace left out of the isolated module id
IsolatedModuleIdNoNamespace(isolationNamespace, originModuleId) ==
  "mfi/" \o originModuleId

\* `${isolationNamespace}/${originModuleId}`
\* no namespace at all: the isolated module takes the id of the origin module
IsolatedModuleIdOriginal(isolationNamespace, originModuleId) == originModuleId

IsolatedModuleId(isolationNamespace, originModuleId) ==
  isolationNamespace \o "/" \o originModuleId

\* a consume-shared placeholder is redirected to the real module and host
Redirect(req, argId) ==
  LET possibleRedirection ==
        IF Has(red[req.origin], argId) THEN red[req.origin][argId]
        ELSE [mid |-> Undef, webpackRequire |-> Undef]
  IN IF Truthy(possibleRedirection.mid) /\ possibleRedirection.webpackRequire # Undef
     THEN [originModuleId |-> possibleRedirection.mid,
           originRequire |-> possibleRedirection.webpackRequire]
     ELSE [originModuleId |-> argId, originRequire |-> req.origin]

\* the version search run at every translation, the memoized match ignored
OwnModuleRecomputed(st, req, originRequire, originModuleId) ==
  LET ownRequire == req.own
      universal == req.strategy = ReuseOwn /\ HasUid(originRequire, originModuleId)
      uid == midToUid(originRequire, originModuleId)
      originPackageUniversalId == uid.pkgName \o "~" \o uid.pkgVersion
      originHostName == hostName[originRequire]
      hostMemo == IF Has(st.pkgMatch[ownRequire], originHostName)
                  THEN st.pkgMatch[ownRequire][originHostName] ELSE EmptyFn
      ownPackageVersion == MatchVersion(st, ownRequire, originRequire, uid)
      st1 == IF universal
             THEN [st EXCEPT !.pkgMatch[ownRequire] =
                      Put(@, originHostName,
                          Put(hostMemo, originPackageUniversalId, ownPackageVersion))]
             ELSE st
      reuseId == IF universal /\ ownPackageVersion # Null
                 THEN PkgModuleId(ownRequire, uid.pkgName, ownPackageVersion, uid.modulePath)
                 ELSE Null
  IN [st |-> st1, ownModuleId |-> IF reuseId = Undef THEN Null ELSE reuseId]

\* strategy ReuseOwn: the own module id standing in for the origin module (Null
\* when there is none), and the state with the version match memoized
OwnModule(st, req, originRequire, originModuleId) ==
  LET ownRequire == req.own
      universal == req.strategy = ReuseOwn /\ HasUid(originRequire, originModuleId)
      uid == midToUid(originRequire, originModuleId)
      originPackageUniversalId == uid.pkgName \o "~" \o uid.pkgVersion
      originHostName == hostName[originRequire]
      hostMemo == IF Has(st.pkgMatch[ownRequire], originHostName)
                  THEN st.pkgMatch[ownRequire][originHostName] ELSE EmptyFn
      memoized == Has(hostMemo, originPackageUniversalId)
      ownPackageVersion ==
        IF memoized THEN hostMemo[originPackageUniversalId]
        ELSE MatchVersion(st, ownRequire, originRequire, uid)
      st1 == IF universal /\ ~memoized
             THEN [st EXCEPT !.pkgMatch[ownRequire] =
                      Put(@, originHostName,
                          Put(hostMemo, originPackageUniversalId, ownPackageVersion))]
             ELSE st
      reuseId == IF universal /\ ownPackageVersion # Null
                 THEN PkgModuleId(ownRequire, uid.pkgName, ownPackageVersion, uid.modulePath)
                 ELSE Null
  IN [st |-> st1, ownModuleId |-> IF reuseId = Undef THEN Null ELSE reuseId]

\* the own cache left unchecked: only a module still instantiating is found
CachedModuleOriginOnly(st, ownRequire, ownModuleId, originRequire, isolatedModuleId) ==
  IF Has(st.c[originRequire], isolatedModuleId)
  THEN st.c[originRequire][isolatedModuleId]
  ELSE 0

\* the module already instantiated in the own cache, else the one still
\* instantiating in the origin cache, else 0
CachedModule(st, ownRequire, ownModuleId, originRequire, isolatedModuleId) ==
  IF Has(st.c[ownRequire], ownModuleId) THEN st.c[ownRequire][ownModuleId]
  ELSE IF Has(st.c[originRequire], isolatedModuleId)
  THEN st.c[originRequire][isolatedModuleId]
  ELSE 0

\* the module is in no cache: install the patched factory under the isolated
\* id in the origin registry and run it there
Instantiate(st1, req, to, isolatedModuleId, ownModuleId) ==
  LET base == IF Has(st1.m[to.originRequire], to.originModuleId)
              THEN st1.m[to.originRequire][to.originModuleId] ELSE UndefFactory
      patched == patchModuleFactory(base,
                   createTranslationRequire(req.own, to.originRequire, req.ns, req.strategy))
      frame == [F0 EXCEPT !.kind = "trans", !.own = req.own, !.host = to.originRequire,
                          !.iso = isolatedModuleId, !.ownKey = ownModuleId]
  IN PushBelow(frame,
       NativeCall([st1 EXCEPT !.m[to.originRequire] = Put(@, isolatedModuleId, patched)],
                  to.originRequire, isolatedModuleId))

\* serve the module from a cache, or instantiate it
ServeOrInstantiate(st1, req, to, isolatedModuleId, ownModuleId, cached) ==
  IF cached # 0
  THEN Out(st1, << >>, st1.mods[cached].exports, FALSE)
  ELSE Instantiate(st1, req, to, isolatedModuleId, ownModuleId)

\* ownModuleId = ownModuleId ?? isolatedModuleId, then the cache checks
TranslateAs(st1, req, to, isolatedModuleId, ownModuleId) ==
  ServeOrInstantiate(st1, req, to, isolatedModuleId, ownModuleId,
    CachedModule(st1, req.own, ownModuleId, to.originRequire, isolatedModuleId))

TranslateFound(req, to, found, isolatedModuleId) ==
  TranslateAs(found.st, req, to, isolatedModuleId,
    IF found.ownModuleId = Null THEN isolatedModuleId ELSE found.ownModuleId)

TranslateTo(st, req, to) ==
  TranslateFound(req, to, OwnModule(st, req, to.originRequire, to.originModuleId),
                 IsolatedModuleId(req.ns, to.originModuleId))

\* originRequire.federation.isolation.red[originModuleId] raises a TypeError when the
\* origin runtime carries no manifest
TransCall(st, req, argId) ==
  IF ~HasIsolation(req.origin) THEN Out(st, << >>, NoRet, TRUE)
  ELSE TranslateTo(st, req, Redirect(req, argId))

\* the module copied to the own cache and left in the origin registry
TransReturnCopied(st, fr) ==
  LET moved == IF Has(st.c[fr.host], fr.iso)
               THEN [st EXCEPT !.c[fr.own] = Put(@, fr.ownKey, st.c[fr.host][fr.iso])]
               ELSE [st EXCEPT !.c[fr.own] = Del(@, fr.ownKey)]
  IN IF Has(moved.c[fr.own], fr.ownKey)
     THEN Out(moved, << >>, moved.mods[moved.c[fr.own][fr.ownKey]].exports, FALSE)
     ELSE Out(moved, << >>, NoRet, TRUE)

\* lines after originRequire(isolatedModuleId): move the module, clean up
TransReturn(st, fr) ==
  LET moved == IF Has(st.c[fr.host], fr.iso)
               THEN [st EXCEPT !.c[fr.own] = Put(@, fr.ownKey, st.c[fr.host][fr.iso])]
               ELSE [st EXCEPT !.c[fr.own] = Del(@, fr.ownKey)]
      cleaned == IF fr.own # fr.host \/ fr.ownKey # fr.iso
                 THEN [moved EXCEPT !.c[fr.host] = Del(@, fr.iso),
                                    !.m[fr.host] = Del(@, fr.iso)]
                 ELSE moved
  IN IF Has(cleaned.c[fr.own], fr.ownKey)
     THEN Out(cleaned, << >>, cleaned.mods[cleaned.c[fr.own][fr.ownKey]].exports, FALSE)
     ELSE Out(cleaned, << >>, NoRet, TRUE)

\* a value factory hands out the same object at every call; the object is in
\* no module cache
ValueCall(st, id) ==
  IF \E i \in DOMAIN st.mods : st.mods[i].reg = "" /\ st.mods[i].id = id
  THEN Out(st, << >>, CHOOSE i \in DOMAIN st.mods : st.mods[i].reg = "" /\ st.mods[i].id = id,
           FALSE)
  ELSE Out([st EXCEPT !.mods = Append(@, [id |-> id, reg |-> "", loaded |-> TRUE,
                                          exports |-> Len(st.mods) + 1, fhost |-> "",
                                          fmid |-> "", via |-> NoReq])],
           << >>, Len(st.mods) + 1, FALSE)

\* calling a require function, native or translation, or a value factory
Call(st, req, id) ==
  CASE req.kind = "native" -> NativeCall(st, req.origin, id)
    [] req.kind = "value" -> ValueCall(st, id)
    [] OTHER -> TransCall(st, req, id)


\* calling a lib factory
LibCall(st, lib) == Call(st, lib.req, lib.mid)

-----------------------------------------------------------------------------
(* The manifest at build time and its expansion at run time.

   A string is a sequence of tokens; "/", "?", "!" and the decimal digits
   are tokens of their own, every other token is a run of characters free
   of them.  Positions are counted from 1, and 0 stands for the -1 of
   indexOf and lastIndexOf.  An object is the sequence of its own entries in
   insertion order. *)

Digits == <<"0", "1", "2", "3", "4", "5", "6", "7", "8", "9">>
IsDigit(t) == \E i \in DOMAIN Digits : Digits[i] = t
DigitValue(t) == (CHOOSE i \in DOMAIN Digits : Digits[i] = t) - 1

\* String(n) of a non-negative integer
RECURSIVE NumberToString(_)
NumberToString(n) ==
  IF n < 10 THEN << Digits[n + 1] >>
  ELSE NumberToString(n \div 10) \o << Digits[(n % 10) + 1] >>

\* parseInt(s): the value of the leading digits, NaN when there is none
RECURSIVE ParseDigits(_, _, _)
ParseDigits(s, i, acc) ==
  IF i <= Len(s) /\ IsDigit(s[i]) THEN ParseDigits(s, i + 1, acc * 10 + DigitValue(s[i]))
  ELSE acc
parseInt(s) ==
  IF Len(s) > 0 /\ IsDigit(s[1]) THEN [nan |-> FALSE, n |-> ParseDigits(s, 1, 0)]
  ELSE [nan |-> TRUE, n |-> 0]

IndexOf(s, t) ==
  IF \E i \in DOMAIN s : s[i] = t
  THEN CHOOSE i \in DOMAIN s : s[i] = t /\ \A j \in 1..(i - 1) : s[j] # t
  ELSE 0
LastIndexOf(s, t) ==
  IF \E i \in DOMAIN s : s[i] = t
  THEN CHOOSE i \in DOMAIN s : s[i] = t /\ \A j \in (i + 1)..Len(s) : s[j] # t
  ELSE 0
\* s.slice(from) and s.slice(0, to), in positions counted from 1
SliceFrom(s, from) == SubSeq(s, from, Len(s))
SliceTo(s, to) == SubSeq(s, 1, to)

\* own entries of an object
ObjHas(o, k) == \E i \in DOMAIN o : o[i].k = k
ObjGet(o, k) == o[CHOOSE i \in DOMAIN o : o[i].k = k].v
ObjPut(o, k, v) ==
  IF ObjHas(o, k) THEN [i \in DOMAIN o |-> IF o[i].k = k THEN [k |-> k, v |-> v] ELSE o[i]]
  ELSE Append(o, [k |-> k, v |-> v])
ObjDelete(o, k) == SelectSeq(o, LAMBDA en : en.k # k)
ObjPairs(o) == { << o[i].k, o[i].v >> : i \in DOMAIN o }

\* members every object literal inherits; a lookup of one of these names in
\* an object without such an own entry yields the inherited function
InheritedNames == {"constructor"}
Inherited == { << n >> : n \in InheritedNames }
FunctionText == "function Object() { [native code] }"

\* prefixToIndex[prefix]
PrefixLookup(prefixToIndex, prefix) ==
  IF ObjHas(prefixToIndex, prefix)
  THEN [kind |-> "number", n |-> ObjGet(prefixToIndex, prefix)]
  ELSE IF prefix \in Inherited THEN [kind |-> "function", n |-> 0]
  ELSE [kind |-> "undefined", n |-> 0]
\* !value
Falsy(value) == value.kind = "undefined" \/ (value.kind = "number" /\ value.n = 0)
\* `${value}`
ValueToString(value) ==
  CASE value.kind = "number" -> NumberToString(value.n)
    [] value.kind = "function" -> << FunctionText >>
    [] OTHER -> << Undef >>

\* modulePath.split(/[!?]/)[0]
SplitLoaderQuery(modulePath) ==
  IF \E i \in DOMAIN modulePath : modulePath[i] \in {"!", "?"}
  THEN SliceTo(modulePath,
         (CHOOSE i \in DOMAIN modulePath :
            modulePath[i] \in {"!", "?"}
            /\ \A j \in 1..(i - 1) : modulePath[j] \notin {"!", "?"}) - 1)
  ELSE modulePath

\* the prefix of a module path gets an index unless its lookup is truthy
AddPrefix(acc, prefix) ==
  IF Falsy(PrefixLookup(acc.prefixToIndex, prefix))
  THEN [acc EXCEPT !.prefixToIndex = ObjPut(@, prefix, Len(acc.pre)),
                   !.pre = Append(@, prefix)]
  ELSE acc

MinifiedKey(acc, prefix, suffix) ==
  ValueToString(PrefixLookup(acc.prefixToIndex, prefix)) \o << "/" >> \o suffix

\* the module path cut at its last slash, the prefix registered, the entry stored
MinifySplit(acc, modulePath, moduleId, lastSlashIndex) ==
  [AddPrefix(acc, SliceTo(modulePath, lastSlashIndex - 1)) EXCEPT
     !.min = ObjPut(@, MinifiedKey(AddPrefix(acc, SliceTo(modulePath, lastSlashIndex - 1)),
                                   SliceTo(modulePath, lastSlashIndex - 1),
                                   SliceFrom(modulePath, lastSlashIndex + 1)),
                    moduleId)]

\* one entry of modulePathToModuleId; acc carries prefixToIndex, pre and
\* minifiedModulePathToModuleId
MinifyModule(acc, modulePath, moduleId) ==
  IF LastIndexOf(SplitLoaderQuery(modulePath), "/") = 0
  THEN [acc EXCEPT !.min = ObjPut(@, modulePath, moduleId)]
  ELSE MinifySplit(acc, modulePath, moduleId,
                   LastIndexOf(SplitLoaderQuery(modulePath), "/"))

RECURSIVE MinifyModules(_, _, _)
MinifyModules(acc, modules, i) ==
  IF i > Len(modules) THEN acc
  ELSE MinifyModules(MinifyModule(acc, modules[i].k, modules[i].v), modules, i + 1)

\* one version of one package
MinifyVersion(acc, entry) ==
  [MinifyModules([acc EXCEPT !.min = << >>], entry.modulePathToModuleId, 1) EXCEPT
     !.pkg = Append(@, [pkgName |-> entry.pkgName, version |-> entry.version,
                        semverRangesIn |-> entry.semverRangesIn,
                        paths |-> MinifyModules([acc EXCEPT !.min = << >>],
                                                entry.modulePathToModuleId, 1).min])]

RECURSIVE MinifyPackages(_, _, _)
MinifyPackages(acc, packages, i) ==
  IF i > Len(packages) THEN acc
  ELSE MinifyPackages(MinifyVersion(acc, packages[i]), packages, i + 1)

\* ModuleFederationIsolationInfoModule.getSizeOptimizedManifest: pre and pkg
getSizeOptimizedManifest(manifest) ==
  [pre |-> MinifyPackages([prefixToIndex |-> << >>, pre |-> << >>, min |-> << >>,
                           pkg |-> << >>], manifest, 1).pre,
   pkg |-> MinifyPackages([prefixToIndex |-> << >>, pre |-> << >>, min |-> << >>,
                           pkg |-> << >>], manifest, 1).pkg]

\* pre[parseInt(preffix)]: pre is counted from 0 in the code
PreAt(pre, preffix) ==
  IF ~parseInt(preffix).nan /\ parseInt(preffix).n + 1 \in DOMAIN pre
  THEN pre[parseInt(preffix).n + 1]
  ELSE << Undef >>

\* the part of a module path before its first question mark
NoLoaderNoQuery(modulePath) ==
  IF IndexOf(modulePath, "?") # 0 THEN SliceTo(modulePath, IndexOf(modulePath, "?") - 1)
  ELSE modulePath

\* the module path with its numeric prefix replaced by the directory
ExpandedPath(pre, modulePath) ==
  IF IndexOf(NoLoaderNoQuery(modulePath), "/") # 0
  THEN PreAt(pre, SliceTo(modulePath, IndexOf(NoLoaderNoQuery(modulePath), "/") - 1))
       \o << "/" >> \o SliceFrom(modulePath, IndexOf(NoLoaderNoQuery(modulePath), "/") + 1)
  ELSE modulePath

\* one entry of packageData[1]; acc carries packageData[1] and midToUid
ExpandModule(acc, pre, pkgName, pkgVersion, modulePath, moduleId) ==
  [paths |-> IF IndexOf(NoLoaderNoQuery(modulePath), "/") # 0
             THEN ObjPut(ObjDelete(acc.paths, modulePath),
                         ExpandedPath(pre, modulePath), moduleId)
             ELSE acc.paths,
   midToUid |-> ObjPut(acc.midToUid, moduleId,
                       [pkgName |-> pkgName, pkgVersion |-> pkgVersion,
                        modulePath |-> ExpandedPath(pre, modulePath)])]

\* Object.entries(packageData[1]).forEach over the entries taken beforehand
RECURSIVE ExpandModules(_, _, _, _, _, _)
ExpandModules(acc, pre, pkgName, pkgVersion, entries, i) ==
  IF i > Len(entries) THEN acc
  ELSE ExpandModules(ExpandModule(acc, pre, pkgName, pkgVersion, entries[i].k, entries[i].v),
                     pre, pkgName, pkgVersion, entries, i + 1)

\* one version of one package; acc carries pkg, midToUid and pkgVersions
ExpandVersion(acc, pre, i) ==
  [pkg |-> [acc.pkg EXCEPT ![i].paths =
              ExpandModules([paths |-> acc.pkg[i].paths, midToUid |-> acc.midToUid], pre,
                            acc.pkg[i].pkgName, acc.pkg[i].version, acc.pkg[i].paths, 1).paths],
   midToUid |-> ExpandModules([paths |-> acc.pkg[i].paths, midToUid |-> acc.midToUid], pre,
                              acc.pkg[i].pkgName, acc.pkg[i].version, acc.pkg[i].paths, 1).midToUid,
   pkgVersions |-> ObjPut(acc.pkgVersions, acc.pkg[i].pkgName,
                     Append(IF ObjHas(acc.pkgVersions, acc.pkg[i].pkgName)
                            THEN ObjGet(acc.pkgVersions, acc.pkg[i].pkgName) ELSE << >>,
                            << acc.pkg[i].version, acc.pkg[i].semverRangesIn >>))]

RECURSIVE ExpandPackages(_, _, _)
ExpandPackages(acc, pre, i) ==
  IF i > Len(acc.pkg) THEN acc
  ELSE ExpandPackages(ExpandVersion(acc, pre, i), pre, i + 1)

\* the expansion with the check of the initiated flag left out
initiateRuntimeManifestAgain(isolation) ==
  [initiated |-> TRUE,
   pre |-> isolation.pre,
   pkg |-> ExpandPackages([pkg |-> isolation.pkg, midToUid |-> << >>,
                           pkgVersions |-> << >>], isolation.pre, 1).pkg,
   midToUid |-> ExpandPackages([pkg |-> isolation.pkg, midToUid |-> << >>,
                                pkgVersions |-> << >>], isolation.pre, 1).midToUid,
   pkgVersions |-> ExpandPackages([pkg |-> isolation.pkg, midToUid |-> << >>,
                                   pkgVersions |-> << >>], isolation.pre, 1).pkgVersions,
   pkgMatch |-> << >>]

\* initiateRuntimeManifestIfPresent on a runtime that carries a manifest
initiateRuntimeManifestIfPresent(isolation) ==
  IF isolation.initiated THEN isolation
  ELSE [initiated |-> TRUE,
        pre |-> isolation.pre,
        pkg |-> ExpandPackages([pkg |-> isolation.pkg, midToUid |-> << >>,
                                pkgVersions |-> << >>], isolation.pre, 1).pkg,
        midToUid |-> ExpandPackages([pkg |-> isolation.pkg, midToUid |-> << >>,
                                     pkgVersions |-> << >>], isolation.pre, 1).midToUid,
        pkgVersions |-> ExpandPackages([pkg |-> isolation.pkg, midToUid |-> << >>,
                                        pkgVersions |-> << >>], isolation.pre, 1).pkgVersions,
        pkgMatch |-> << >>]

-----------------------------------------------------------------------------
(* Initial state: every bundle evaluated, no federation host initialised *)

\* options.sharedDependencies: none, or in the deployment with overrides one
\* override, for package lib or under the key li
SharedDependencySets ==
  IF world = "override"
  THEN {EmptyFn} \cup { ("lib" :> [stateStrategy |-> s]) : s \in Strategies }
       \cup { ("li" :> [stateStrategy |-> ReuseOwn]) }
  ELSE {EmptyFn}

OptionSet ==
  { [stateStrategy |-> s, sharedDependencies |-> sd] :
      s \in Strategies, sd \in SharedDependencySets }

Start ==
  /\ c = [h \in Hosts |-> EmptyFn]
  /\ m = [h \in Hosts |-> [k \in DOMAIN WebpackModules(h) |-> CodeFactory(h, k)]]
  /\ mods = << >>
  /\ red = [h \in Hosts |-> ManifestRed(h)]
  /\ pkgMatch = [h \in Hosts |-> EmptyFn]
  /\ hostReq = [h \in Hosts |-> Undef]
  /\ hostName = [h \in Hosts |-> Undef]
  /\ shareLib = [e \in SharedEntries |-> NoLib]
  /\ loads = << >>
  /\ stack = << >>
  /\ ret = NoRet
  /\ results = {}
  /\ count = [lib |-> 0, native |-> 0]
  /\ options \in { o \in [Hosts -> OptionSet] :
                     \A h \in Hosts \ StrategyHosts :
                       /\ o[h].stateStrategy = UseOrigin
                       /\ o[h].sharedDependencies = EmptyFn }
  /\ trace = << >>
  /\ steps = 0

-----------------------------------------------------------------------------
(* Effects of a call on the state, the stack and the pending return value *)

\* events of the trace
Event(what, rec, dep, loaded) == [what |-> what, rec |-> rec, dep |-> dep, loaded |-> loaded]
Enter(rec) == Event("enter", rec, 0, FALSE)
Exit(rec) == Event("exit", rec, 0, TRUE)
See(st, rec, exports) == Event("see", rec, exports, st.mods[exports].loaded)
Entered(push) ==
  IF Len(push) > 0 /\ push[Len(push)].kind = "code"
  THEN << Enter(push[Len(push)].rec) >> ELSE << >>

Result(fr, value, threw) ==
  [load |-> fr.load, host |-> fr.host, key |-> fr.key, value |-> value, threw |-> threw]

\* no frame of the engine catches: an exception unwinds the whole stack; a
\* loading promise rejects, any other caller gets the exception
Commit(out, base, seen) ==
  /\ c' = out.st.c
  /\ m' = out.st.m
  /\ mods' = out.st.mods
  /\ pkgMatch' = out.st.pkgMatch
  /\ IF out.threw
     THEN /\ stack' = << >>
          /\ ret' = NoRet
          /\ trace' = << >>
          /\ steps' = 0
          /\ IF base[1].kind = "load"
             THEN /\ loads' = [loads EXCEPT ![base[1].load].stage = "rejected"]
                  /\ results' = results
             ELSE /\ loads' = loads
                  /\ results' = results \cup {Result(base[1], NoRet, TRUE)}
     ELSE /\ stack' = base \o out.push
          /\ ret' = out.ret
          /\ trace' = trace \o seen \o Entered(out.push)
          /\ steps' = steps + 1
          /\ loads' = loads
          /\ results' = results

Idle == stack = << >>
Top == stack[Len(stack)]
Below == SubSeq(stack, 1, Len(stack) - 1)

-----------------------------------------------------------------------------
(* Hooks of the runtime plugin *)

\* beforeInit: the require is exposed on the federation host, then the host
\* name is saved in the manifest; without a manifest that assignment raises
\* a TypeError
beforeInit(h) ==
  /\ Idle
  /\ hostName[h] = Undef
  /\ hostReq' = [hostReq EXCEPT ![h] = IF @ = Undef THEN h ELSE @]
  /\ IF HasIsolation(h)
     THEN /\ hostName' = [hostName EXCEPT ![h] = h]
          /\ results' = results
     ELSE /\ hostName' = hostName
          /\ results' = results \cup
               {Result([load |-> 0, host |-> h, key |-> "beforeInit"], NoRet, TRUE)}
  /\ UNCHANGED <<count, c, m, mods, red, pkgMatch, shareLib, loads, stack, ret,
                 options, world, build, trace, steps>>

\* the stateStrategy of an object that has none
UndefinedStrategy == -1

\* options.sharedDependencies[pkgName] ? ...stateStrategy : options.stateStrategy;
\* options is an object literal, so the lookup of a name every object
\* inherits yields a function, which is truthy and has no stateStrategy
StateStrategyFor(opts, pkgName) ==
  IF Has(opts.sharedDependencies, pkgName)
  THEN opts.sharedDependencies[pkgName].stateStrategy
  ELSE IF pkgName \in InheritedNames THEN UndefinedStrategy
  ELSE opts.stateStrategy

\* resolveShare: the strategy is fixed, the resolver is wrapped, the loading
\* promise is created
resolveShare(h, p, e, marked) ==
  /\ Idle
  /\ Len(loads) < LoadBound
  /\ hostName[h] # Undef
  \* a bundle built with the plugin has run beforeInit before it shares
  /\ e.from \in ManifestHosts => hostReq[e.from] # Undef
  /\ Has(PlaceholderPkg(h), p)
  /\ e.pkgName = PlaceholderPkg(h)[p]
  /\ LET stateStrategy == StateStrategyFor(options[h], e.pkgName)
     IN loads' = Append(loads,
          [consumer |-> h, placeholder |-> p, entry |-> e,
           provided |-> e.providedModuleId,
           marked |-> marked, strategy |-> stateStrategy, stage |-> "pending",
           lib |-> NoLib, scanned |-> 0])
  /\ UNCHANGED <<count, c, m, mods, red, pkgMatch, hostReq, hostName, shareLib, stack, ret,
                 results, options, world, build, trace, steps>>

\* the strategy check left out: every strategy gets a translation require
loadingResultAlwaysPatched(own, originRequire, e, stateStrategy, originModuleId) ==
  Lib(createTranslationRequire(own, originRequire,
        "mfi/" \o hostName[own] \o "/" \o e.pkgName \o "/" \o e.version,
        stateStrategy), originModuleId)

\* the provider's bundle taken for its exposed require, exposed or not
InstanceReqUnchecked(from) == IF from \in Hosts THEN from ELSE Undef

\* GlobalFederation.__INSTANCES__.find(instance => instance.name === from)
\* and its __webpack_require__: undefined when there is no such instance or
\* the instance exposes no require
InstanceReq(from) == IF from \in Hosts THEN hostReq[from] ELSE Undef

\* the namespace built from the name of the provider instead of the consumer
loadingResultProviderNamespace(own, originRequire, e, stateStrategy, originModuleId) ==
  IF stateStrategy = UseOrigin THEN OriginalFactory(e)
  ELSE Lib(createTranslationRequire(own, originRequire,
             "mfi/" \o e.from \o "/" \o e.pkgName \o "/" \o e.version,
             stateStrategy), originModuleId)

\* what the loading promise resolves with once the redirection is saved
loadingResult(own, originRequire, e, stateStrategy, originModuleId) ==
  IF stateStrategy = UseOrigin THEN OriginalFactory(e)
  ELSE Lib(createTranslationRequire(own, originRequire,
             "mfi/" \o hostName[own] \o "/" \o e.pkgName \o "/" \o e.version,
             stateStrategy), originModuleId)

\* the loading promise resolved without the redirection being saved
LoadSettleUnsaved(l, originModuleId, st, scanned) ==
  LET load == loads[l]
      e == load.entry
      own == load.consumer
      originRequire == InstanceReq(e.from)
      known == originRequire # Undef /\ load.marked /\ originModuleId # Undef
      lib == IF known THEN loadingResult(own, originRequire, e, load.strategy, originModuleId)
             ELSE OriginalFactory(e)
  IN /\ red' = red
     /\ loads' = [loads EXCEPT ![l].stage = "resolved", ![l].lib = lib,
                               ![l].scanned = scanned]
     /\ m' = IF load.marked
             THEN [st.m EXCEPT ![own] = Put(@, load.placeholder,
                                            ConsumeFactory(own, load.placeholder, lib))]
             ELSE st.m

\* the tail of the loading promise once the provided module id is settled
LoadSettle(l, originModuleId, st, scanned) ==
  LET load == loads[l]
      e == load.entry
      own == load.consumer
      originRequire == InstanceReq(e.from)
      known == originRequire # Undef /\ load.marked /\ originModuleId # Undef
      lib == IF known THEN loadingResult(own, originRequire, e, load.strategy, originModuleId)
             ELSE OriginalFactory(e)
  IN /\ red' = IF known
               THEN [red EXCEPT ![own] = Put(@, load.placeholder,
                       [mid |-> originModuleId, webpackRequire |-> originRequire])]
               ELSE red
     /\ loads' = [loads EXCEPT ![l].stage = "resolved", ![l].lib = lib,
                               ![l].scanned = scanned]
     \* the consumes handler of the bundler runtime installs the factory
     /\ m' = IF load.marked
             THEN [st.m EXCEPT ![own] = Put(@, load.placeholder,
                                            ConsumeFactory(own, load.placeholder, lib))]
             ELSE st.m

\* the modules the code of module k of bundle h reaches through native requires
RECURSIVE Closure(_, _, _)
Closure(h, todo, done) ==
  IF todo = {} THEN done
  ELSE LET k == CHOOSE x \in todo : TRUE
           next == IF Has(WebpackModules(h), k) THEN SeqRange(WebpackModules(h)[k]) ELSE {}
       IN Closure(h, (todo \cup next) \ (done \cup {k}), done \cup {k})

\* the bundler runtime hands out a module only after the consume-shared
\* placeholders of its chunk are installed
ChunkReady(h, k) ==
  \A p \in Closure(h, {k}, {}) \cap DOMAIN PlaceholderPkg(h) : Has(m[h], p)

\* the callbacks of the loading promise; get() of the provider has resolved
loadingThen(l) ==
  /\ Idle
  /\ l \in DOMAIN loads
  /\ loads[l].stage = "pending"
  /\ ~GetterRejects(loads[l].entry)
  /\ ChunkReady(loads[l].entry.from, loads[l].entry.mid)
  /\ LET load == loads[l]
         e == load.entry
         originRequire == InstanceReq(e.from)
     IN /\ shareLib' = [shareLib EXCEPT ![e] = OriginalFactory(e)]
        /\ IF originRequire # Undef /\ load.marked /\ load.provided = Undef
           THEN \* fallback: instantiate through the original factory, then scan
                /\ Commit(LibCall(St, OriginalFactory(e)),
                          << [F0 EXCEPT !.kind = "load", !.load = l, !.pc = 1] >>, << >>)
                /\ red' = red
           ELSE /\ LoadSettle(l, load.provided, St, 0)
                /\ UNCHANGED <<c, mods, pkgMatch, stack, ret, results, trace, steps>>
  /\ UNCHANGED <<count, hostReq, hostName, options, world, build>>

\* Object.entries(originRequire.c).find(([, { exports }]) => exports === instance)
ScanCache(st, h, instance) ==
  IF \E k \in DOMAIN st.c[h] : st.mods[st.c[h][k]].exports = instance
  THEN CHOOSE k \in DOMAIN st.c[h] : st.mods[st.c[h][k]].exports = instance
  ELSE Undef

\* the factory the loading promise resolves with written into the registered
\* object, in place of the original factory
loadReturnSharesResult ==
  /\ ~Idle
  /\ ret # NoRet
  /\ Top.kind = "load"
  /\ LET l == Top.load
         originModuleId == ScanCache(St, InstanceReq(loads[l].entry.from), ret)
     IN /\ LoadSettle(l, originModuleId, St, 1)
        /\ shareLib' = [shareLib EXCEPT ![loads[l].entry] = loads'[l].lib]
  /\ stack' = << >>
  /\ ret' = NoRet
  /\ trace' = << >>
  /\ steps' = 0
  /\ UNCHANGED <<count, c, mods, pkgMatch, hostReq, hostName, results, options, world, build>>

\* the original factory returned to the loading promise: scan and settle
loadReturn ==
  /\ ~Idle
  /\ ret # NoRet
  /\ Top.kind = "load"
  /\ LET l == Top.load
         originModuleId == ScanCache(St, InstanceReq(loads[l].entry.from), ret)
     IN LoadSettle(l, originModuleId, St, 1)
  /\ stack' = << >>
  /\ ret' = NoRet
  /\ trace' = << >>
  /\ steps' = 0
  /\ UNCHANGED <<count, c, mods, pkgMatch, hostReq, hostName, shareLib, results, options, world, build>>

-----------------------------------------------------------------------------
(* Top-level calls made by the code of a host *)


\* the consumer calls the factory its load resolved with
callLib(l) ==
  /\ Idle
  /\ count.lib < MaxCalls
  /\ count' = [count EXCEPT !.lib = @ + 1]
  /\ l \in DOMAIN loads
  /\ loads[l].stage = "resolved"
  /\ Commit(LibCall(St, loads[l].lib),
            << [F0 EXCEPT !.kind = "top", !.load = l, !.host = loads[l].consumer,
                          !.key = loads[l].lib.mid, !.pc = 1] >>, << >>)
  /\ UNCHANGED <<red, hostReq, hostName, shareLib, options, world, build>>

\* the code of host h requires one of its modules
nativeRequire(h, k) ==
  /\ Idle
  /\ count.native < MaxNative
  /\ count' = [count EXCEPT !.native = @ + 1]
  /\ k \in DOMAIN WebpackModules(h) \cup DOMAIN PlaceholderPkg(h)
  /\ ChunkReady(h, k)
  /\ Commit(NativeCall(St, h, k),
            << [F0 EXCEPT !.kind = "top", !.host = h, !.key = k, !.pc = 1] >>, << >>)
  /\ UNCHANGED <<red, hostReq, hostName, shareLib, options, world, build>>

-----------------------------------------------------------------------------
(* Steps of the running synchronous operation *)

Deps(fr) == WebpackModules(fr.fhost)[fr.fmid]

\* the require call of the running code produced out: a value served from a
\* cache lets the code go on with its next require, a new frame is run first
Required(out) ==
  IF out.ret # NoRet
  THEN Commit([out EXCEPT !.ret = NoRet], Below \o << [Top EXCEPT !.pc = @ + 1] >>,
              << See(out.st, Top.rec, out.ret) >>)
  ELSE Commit(out, stack, << >>)

\* the code of a module calls the require it was handed
stepRequire ==
  /\ ~Idle
  /\ ret = NoRet
  /\ Top.kind = "code"
  /\ ~Throws(Top.fhost, Top.fmid)
  /\ Top.pc <= Len(Deps(Top))
  /\ Required(Call(St, Top.req, Deps(Top)[Top.pc]))
  /\ UNCHANGED <<count, red, hostReq, hostName, shareLib, options, world, build>>

\* the factory of a consume-shared placeholder calls the lib factory
stepConsume ==
  /\ ~Idle
  /\ ret = NoRet
  /\ Top.kind = "consume"
  /\ Top.pc = 0
  /\ Commit(LibCall(St, Top.lib), Below \o << [Top EXCEPT !.pc = 1] >>, << >>)
  /\ UNCHANGED <<count, red, hostReq, hostName, shareLib, options, world, build>>

\* the code of a module ran to its end: __webpack_require__ returns the exports
stepFinish ==
  /\ ~Idle
  /\ ret = NoRet
  /\ Top.kind = "code"
  /\ ~Throws(Top.fhost, Top.fmid)
  /\ Top.pc > Len(Deps(Top))
  /\ mods' = [mods EXCEPT ![Top.rec].loaded = TRUE]
  /\ stack' = Below
  /\ ret' = mods[Top.rec].exports
  /\ trace' = Append(trace, Exit(Top.rec))
  /\ steps' = steps + 1
  /\ UNCHANGED <<count, c, m, red, pkgMatch, hostReq, hostName, shareLib, loads, results, options, world, build>>

\* a require call returned into the code of a module
returnCode ==
  /\ ~Idle
  /\ ret # NoRet
  /\ Top.kind = "code"
  /\ stack' = Below \o << [Top EXCEPT !.pc = @ + 1] >>
  /\ ret' = NoRet
  /\ trace' = Append(trace, See(St, Top.rec, ret))
  /\ steps' = steps + 1
  /\ UNCHANGED <<count, c, m, mods, red, pkgMatch, hostReq, hostName, shareLib, loads, results,
                 options, world, build>>

\* originRequire(isolatedModuleId) returned into the translation require
returnTrans ==
  /\ ~Idle
  /\ ret # NoRet
  /\ Top.kind = "trans"
  /\ Commit(TransReturn(St, Top), Below, << >>)
  /\ UNCHANGED <<count, red, hostReq, hostName, shareLib, options, world, build>>

\* the lib factory returned into the consume factory: module.exports = result
returnConsume ==
  /\ ~Idle
  /\ ret # NoRet
  /\ Top.kind = "consume"
  /\ mods' = [mods EXCEPT ![Top.rec].exports = ret, ![Top.rec].loaded = TRUE]
  /\ stack' = Below
  /\ ret' = ret
  /\ steps' = steps + 1
  /\ UNCHANGED <<count, c, m, red, pkgMatch, hostReq, hostName, shareLib, loads, results, options, world, build,
                 trace>>

\* the top-level call returned to the code of the host
returnTop ==
  /\ ~Idle
  /\ ret # NoRet
  /\ Top.kind = "top"
  /\ results' = results \cup {Result(Top, ret, FALSE)}
  /\ stack' = << >>
  /\ ret' = NoRet
  /\ trace' = << >>
  /\ steps' = 0
  /\ UNCHANGED <<count, c, m, mods, red, pkgMatch, hostReq, hostName, shareLib, loads, options, world, build>>

-----------------------------------------------------------------------------


Next ==
  \/ \E h \in Hosts : beforeInit(h)
  \/ \E h \in Hosts, e \in SharedEntries, p \in {"p", "q", "k"}, marked \in ScopeMarks :
       resolveShare(h, p, e, marked)
  \/ \E l \in 1..LoadBound : loadingThen(l)
  \/ loadReturn
  \/ \E l \in 1..LoadBound : callLib(l)
  \/ \E h \in Hosts, k \in {"a", "a3", "v", "q", "x", "y", "p", "z", "0"} : nativeRequire(h, k)
  \/ stepRequire
  \/ stepConsume
  \/ stepFinish
  \/ returnCode
  \/ returnTrans
  \/ returnConsume
  \/ returnTop

\* two bundles built with the plugin
Init == world = "core" /\ Start /\ build = [phase |-> "none"]

Spec == Init /\ [][Next]_vars

\* the open deployment
InitOpen == world = "open" /\ Start /\ build = [phase |-> "none"]

SpecOpen == InitOpen /\ [][Next]_vars

\* the deployment with per-package overrides
InitOverride == world = "override" /\ Start /\ build = [phase |-> "none"]

SpecOverride == InitOverride /\ [][Next]_vars

\* the deployment with a clash of module ids
InitClash == world = "clash" /\ Start /\ build = [phase |-> "none"]

SpecClash == InitClash /\ [][Next]_vars

\* the versions of lib a bundle can hold, with the module of each
OwnVersionEntries ==
  { [version |-> "1.0.0", rangesIn |-> r, paths |-> ("index.js" :> "a")] :
      r \in { <<"^1.0.0">>, <<"^1.0.0", "^1.3.0">> } }
  \cup { [version |-> "1.3.0", rangesIn |-> r, paths |-> ("index.js" :> "a3")] :
           r \in { <<"^1.0.0">>, <<"^1.0.0", "^1.3.0">> } }

\* manifest.pkg.lib of H1: both versions, in the order the build met them
VersionLists ==
  { << e, f >> : e \in OwnVersionEntries, f \in OwnVersionEntries } \ 
  { vs \in { << e, f >> : e \in OwnVersionEntries, f \in OwnVersionEntries } :
      vs[1].version = vs[2].version }

\* the code of a module throws: no frame of the engine or of webpack's
\* require catches, the module record stays in the cache it was created in;
\* inside the fallback of a loading promise the promise rejects
stepThrow ==
  /\ ~Idle
  /\ ret = NoRet
  /\ Top.kind = "code"
  /\ Throws(Top.fhost, Top.fmid)
  /\ stack' = << >>
  /\ trace' = << >>
  /\ steps' = 0
  /\ IF stack[1].kind = "load"
     THEN /\ loads' = [loads EXCEPT ![stack[1].load].stage = "rejected"]
          /\ results' = results
     ELSE /\ loads' = loads
          /\ results' = results \cup {Result(stack[1], NoRet, TRUE)}
  /\ UNCHANGED <<count, c, m, mods, red, pkgMatch, hostReq, hostName, shareLib, ret,
                 options, world, build>>

\* resolvedDependency.get() rejected: the loading promise of the wrapped
\* resolver rejects, no callback of the chain runs
getterRejects(l) ==
  /\ Idle
  /\ l \in DOMAIN loads
  /\ loads[l].stage = "pending"
  /\ GetterRejects(loads[l].entry)
  /\ loads' = [loads EXCEPT ![l].stage = "rejected"]
  /\ UNCHANGED <<count, c, m, mods, red, pkgMatch, hostReq, hostName, shareLib, stack, ret,
                 results, options, world, build, trace, steps>>

NextFaulty ==
  \/ Next
  \/ stepThrow
  \/ \E l \in 1..LoadBound : getterRejects(l)

\* the deployment with a provider built without the plugin
InitForeign == world = "foreign" /\ Start /\ build = [phase |-> "none"]

SpecForeign == InitForeign /\ [][Next]_vars

\* the deployment with numeric module ids
InitNumeric == world = "numeric" /\ Start /\ build = [phase |-> "none"]

SpecNumeric == InitNumeric /\ [][Next]_vars

\* the deployment with a module that throws and a getter that rejects
InitFaulty == world = "faulty" /\ Start /\ build = [phase |-> "none"]

SpecFaulty == InitFaulty /\ [][NextFaulty]_vars

\* the deployment with the versions of H1 in any order; H1 reuses its own
InitOrder ==
  /\ world = "order"
  /\ build \in { [phase |-> "none", versions |-> vs, ranges |-> r] :
                   vs \in VersionLists, r \in { <<"^1.0.0">>, <<"^1.2.0">> } }
  /\ Start
  /\ options["H1"].stateStrategy = ReuseOwn

SpecOrder == InitOrder /\ [][Next]_vars

\* the versions of lib a bundle can hold when no dependent declared a range
\* for some of them
BareVersionEntries ==
  { [version |-> "1.0.0", rangesIn |-> r, paths |-> ("index.js" :> "a")] :
      r \in { << >>, <<"^1.0.0">> } }
  \cup { [version |-> "1.3.0", rangesIn |-> r, paths |-> ("index.js" :> "a3")] :
           r \in { << >>, <<"^1.3.0">> } }

BareVersionLists ==
  { vs \in { << e, f >> : e \in BareVersionEntries, f \in BareVersionEntries } :
      vs[1].version # vs[2].version }

\* the deployment with versions without recorded ranges; H1 reuses its own
InitBare ==
  /\ world = "bare"
  /\ build \in { [phase |-> "none", versions |-> vs, ranges |-> r] :
                   vs \in BareVersionLists, r \in { << >>, <<"^1.2.0">> } }
  /\ Start
  /\ options["H1"].stateStrategy = ReuseOwn

SpecBare == InitBare /\ [][Next]_vars

-----------------------------------------------------------------------------
(* The build of one bundle and the start of its runtime *)

\* the module paths the build plugin can meet in a package
PathList ==
  << << "a", "/", "b", "/", "c.js" >>,
     << "a", "/", "b", "/", "d.js" >>,
     << "index.js" >>,
     << "a", "/", "c.js", "?", "l@d", "/", "e.js", "!" >>,
     << "index.js", "?", "l@d", "/", "e.js", "!" >>,
     << "constructor", "/", "c.js" >>,
     << "b", "/", "c.js", "?", "v=1" >> >>

\* modulePathToModuleId of the n-th package of the manifest: the chosen
\* paths in the order the modules were met, each with an id of its own
ModuleEntries(n, choice) ==
  [i \in DOMAIN choice |-> [k |-> PathList[choice[i]], v |-> 10 * n + choice[i]]]

Choices(maxLen) ==
  { s \in UNION { [1..k -> DOMAIN PathList] : k \in 1..maxLen } :
      \A i, j \in DOMAIN s : s[i] = s[j] => i = j }

PackageEntry(n, pkgName, version, choice) ==
  [pkgName |-> pkgName, version |-> version, semverRangesIn |-> << "^" \o version >>,
   modulePathToModuleId |-> ModuleEntries(n, choice)]

\* manifest.packages as the build plugin collected it
Manifests ==
  { << PackageEntry(1, "lib", "1.0.0", s) >> : s \in Choices(MaxModules) }
  \cup { << PackageEntry(1, "lib", "1.0.0", s), PackageEntry(2, second[1], second[2], t) >> :
           s \in Choices(MaxModules), t \in Choices(1),
           second \in { << "lib", "2.0.0" >>, << "util", "1.0.0" >> } }

\* ModuleFederationIsolationInfoModule.generate: the compacted manifest
\* becomes __webpack_require__.federation.isolation of the bundle
generate ==
  /\ build.phase = "raw"
  /\ build' = [build EXCEPT
       !.phase = "emitted",
       !.log = Append(@, "generate"),
       !.isolation = [initiated |-> FALSE,
                      pre |-> getSizeOptimizedManifest(build.manifest).pre,
                      pkg |-> getSizeOptimizedManifest(build.manifest).pkg,
                      midToUid |-> << >>, pkgVersions |-> << >>, pkgMatch |-> << >>]]
  /\ UNCHANGED <<c, m, mods, red, pkgMatch, hostReq, hostName, shareLib, loads, stack, ret,
                 results, count, options, trace, steps, world>>

\* plugin(): the runtime plugin is constructed once more in the bundle
plugin ==
  /\ build.phase = "emitted"
  /\ build.plugins < MaxPlugins
  /\ build' = [build EXCEPT
       !.plugins = @ + 1,
       !.log = Append(@, "plugin"),
       !.isolation = initiateRuntimeManifestIfPresent(build.isolation)]
  /\ UNCHANGED <<c, m, mods, red, pkgMatch, hostReq, hostName, shareLib, loads, stack, ret,
                 results, count, options, trace, steps, world>>

\* a translation require memoizes the version matched for a package of a provider
storeMatch(originHostName, originPackageUniversalId, ownPackageVersion) ==
  /\ build.phase = "emitted"
  /\ build.isolation.initiated
  /\ ~ObjHas(build.isolation.pkgMatch, originHostName)
  /\ build' = [build EXCEPT
       !.log = Append(@, "storeMatch"),
       !.isolation.pkgMatch = ObjPut(@, originHostName,
                                     << [k |-> originPackageUniversalId,
                                         v |-> ownPackageVersion] >>)]
  /\ UNCHANGED <<c, m, mods, red, pkgMatch, hostReq, hostName, shareLib, loads, stack, ret,
                 results, count, options, trace, steps, world>>

NextBuild ==
  \/ generate
  \/ plugin
  \/ storeMatch("H2", "lib@1.2.0", "1.0.0")

\* one bundle is built and started; nothing is shared yet
InitBuild ==
  /\ world = "build"
  /\ Start
  /\ options = [h \in Hosts |-> [stateStrategy |-> UseOrigin, sharedDependencies |-> EmptyFn]]
  /\ build \in { [phase |-> "raw", manifest |-> mf, plugins |-> 0, log |-> << >>,
                  isolation |-> [initiated |-> FALSE, pre |-> << >>, pkg |-> << >>,
                                 midToUid |-> << >>, pkgVersions |-> << >>,
                                 pkgMatch |-> << >>]] : mf \in Manifests }

SpecBuild == InitBuild /\ [][NextBuild]_vars

-----------------------------------------------------------------------------
(* The build plugin: which bundles of a compilation it is applied to *)

\* userOptions.entry: a string (the empty one by default) or an array of strings
EntryOptions ==
  { [isString |-> TRUE, names |-> << "" >>],
    [isString |-> TRUE, names |-> << "A" >>],
    [isString |-> TRUE, names |-> << "remoteEntry" >>],
    [isString |-> FALSE, names |-> << >>],
    [isString |-> FALSE, names |-> << "A" >>],
    [isString |-> FALSE, names |-> << "A", "B" >>] }

\* if (this.options.entry): the empty string is falsy, every array is truthy
EntryTruthy(entry) == ~(entry.isString /\ entry.names[1] = "")

\* the set the constructor fills from the entry option (a const of the
\* constructor, lines 208-215)
LocalRemoteEntriesToApply(entry) ==
  IF EntryTruthy(entry) THEN { entry.names[i] : i \in DOMAIN entry.names } ELSE {}

\* compiler.options.plugins: module federation plugins with or without a
\* name, and other plugins
CompilerPlugins ==
  { [ctor |-> "ModuleFederationPlugin", name |-> "A"],
    [ctor |-> "ModuleFederationPlugin", name |-> "B"],
    [ctor |-> "ModuleFederationPlugin", name |-> Undef],
    [ctor |-> "HtmlWebpackPlugin", name |-> Undef] }

\* the chunks of the compilation
Chunks == [name : {"A", "B", Undef}, hasRuntime : BOOLEAN]

SeqsUpTo2(S) == { << x >> : x \in S } \cup { << x, y >> : x \in S, y \in S }

\* moduleFederationPluginOptions.name ?? 'remoteEntry'
RemoteEntryName(mfPlugin) ==
  IF mfPlugin.name = Undef THEN "remoteEntry" ELSE mfPlugin.name

\* new ModuleFederationIsolationPlugin(userOptions): the field
\* remoteEntriesToApply keeps its initial value, the set built from the
\* entry option is a local of the constructor
construct ==
  /\ build.phase = "new"
  /\ build' = [build EXCEPT !.phase = "constructed", !.remoteEntriesToApply = {}]
  /\ UNCHANGED <<c, m, mods, red, pkgMatch, hostReq, hostName, shareLib, loads, stack, ret,
                 results, count, options, trace, steps, world>>

\* does the filter of lines 264 and 561-562 let a bundle of this name pass
Applies(remoteEntriesToApply, name) ==
  remoteEntriesToApply = {} \/ name \in remoteEntriesToApply

RECURSIVE InjectInto(_, _, _, _)
InjectInto(remoteEntriesToApply, plugins, i, injected) ==
  IF i > Len(plugins) THEN injected
  ELSE InjectInto(remoteEntriesToApply, plugins, i + 1,
         IF plugins[i].ctor = "ModuleFederationPlugin"
            /\ Applies(remoteEntriesToApply, RemoteEntryName(plugins[i]))
         THEN Append(injected, [at |-> i, name |-> RemoteEntryName(plugins[i]),
                                runtimePlugin |-> Len(injected)])
         ELSE injected)

\* injectRuntimePlugins: a runtime plugin file for every module federation
\* plugin that passes the filter
injectRuntimePlugins ==
  /\ build.phase = "constructed"
  /\ build' = [build EXCEPT
       !.phase = "injected",
       !.injected = InjectInto(build.remoteEntriesToApply, build.plugins, 1, << >>)]
  /\ UNCHANGED <<c, m, mods, red, pkgMatch, hostReq, hostName, shareLib, loads, stack, ret,
                 results, count, options, trace, steps, world>>

\* afterOptimizeChunkIds: the manifest module is added to every chunk with a
\* runtime that passes the filter
attachToRuntime ==
  /\ build.phase = "injected"
  /\ build' = [build EXCEPT
       !.phase = "attached",
       !.attached = { i \in DOMAIN build.chunks :
                        /\ build.chunks[i].hasRuntime
                        /\ \/ build.remoteEntriesToApply = {}
                           \/ /\ build.chunks[i].name # Undef
                              /\ build.chunks[i].name \in build.remoteEntriesToApply }]
  /\ UNCHANGED <<c, m, mods, red, pkgMatch, hostReq, hostName, shareLib, loads, stack, ret,
                 results, count, options, trace, steps, world>>

NextEntry ==
  \/ construct
  \/ injectRuntimePlugins
  \/ attachToRuntime

\* a compilation with its plugins and chunks, the build plugin about to be constructed
InitEntry ==
  /\ world = "entry"
  /\ Start
  /\ options = [h \in Hosts |-> [stateStrategy |-> UseOrigin, sharedDependencies |-> EmptyFn]]
  /\ build \in { [phase |-> "new", entry |-> entry, plugins |-> plugins, chunks |-> chunks,
                  remoteEntriesToApply |-> {}, injected |-> << >>, attached |-> {}] :
                 entry \in EntryOptions, plugins \in SeqsUpTo2(CompilerPlugins),
                 chunks \in SeqsUpTo2(Chunks) }

SpecEntry == InitEntry /\ [][NextEntry]_vars

-----------------------------------------------------------------------------
(* The names the engine builds: isolation namespaces and namespaced module ids *)

\* names of federation hosts and share keys of packages: one or two segments
\* ('@scope/name', 'package/sub')
Segments == {"a", "b"}
Names == { << s >> : s \in Segments } \cup { << s, "/", t >> : s \in Segments, t \in Segments }
Versions == { << "1.0.0" >>, << "1.2.0" >> }
\* module ids of a bundle: a name or a path
ModuleIds == { << "x" >>, << "a", "/", "x" >> }

\* `mfi/${hostName}/${pkgName}/${pkgVersion}`
IsolationNamespace(ownHostName, pkgName, pkgVersion) ==
  << "mfi", "/" >> \o ownHostName \o << "/" >> \o pkgName \o << "/" >> \o pkgVersion

\* `${isolationNamespace}/${originModuleId}`
NamespacedId(isolationNamespace, originModuleId) ==
  isolationNamespace \o << "/" >> \o originModuleId

\* resolveShare of two loads: each gets the namespace of its translation require
nameNamespaces ==
  /\ build.phase = "new"
  /\ build' = [build EXCEPT
       !.phase = "named",
       !.ns = [i \in DOMAIN build.triples |->
                 IsolationNamespace(build.triples[i].hostName, build.triples[i].pkgName,
                                    build.triples[i].pkgVersion)]]
  /\ UNCHANGED <<c, m, mods, red, pkgMatch, hostReq, hostName, shareLib, loads, stack, ret,
                 results, count, options, trace, steps, world>>

\* each translation require is called with a module id of its origin
nameModules ==
  /\ build.phase = "named"
  /\ build' = [build EXCEPT
       !.phase = "translated",
       !.isolatedModuleId = [i \in DOMAIN build.ns |-> NamespacedId(build.ns[i], build.mids[i])]]
  /\ UNCHANGED <<c, m, mods, red, pkgMatch, hostReq, hostName, shareLib, loads, stack, ret,
                 results, count, options, trace, steps, world>>

NextNames ==
  \/ nameNamespaces
  \/ nameModules

Triples == [hostName : Names, pkgName : Names, pkgVersion : Versions]

\* two loads, each of a package in a version by a consumer, and the module
\* id each translation require is called with
InitNames ==
  /\ world = "names"
  /\ Start
  /\ options = [h \in Hosts |-> [stateStrategy |-> UseOrigin, sharedDependencies |-> EmptyFn]]
  /\ build \in { [phase |-> "new", triples |-> << t1, t2 >>, mids |-> << i1, i2 >>,
                  ns |-> << >>, isolatedModuleId |-> << >>] :
                 t1 \in Triples, t2 \in Triples, i1 \in ModuleIds, i2 \in ModuleIds }

SpecNames == InitNames /\ [][NextNames]_vars

-----------------------------------------------------------------------------
(* The shape of what resolveShare hands back: the arguments and the result *)
(* of the resolver, in both variants of the runtime plugin                 *)

\* args.resolver() found nothing registered
NoDependency == [none |-> TRUE]

\* the registered objects the original resolver can yield: never loaded, or
\* loaded by the runtime before
SharedObjects ==
  { [from |-> from, scope |-> scope, get |-> get, lib |-> state.lib,
     loaded |-> state.loaded, loading |-> state.loading] :
    from \in {"H1", "H2"}, scope \in {<< "default" >>, << "H1" >>},
    get \in {"getA", "getX"},
    state \in { [lib |-> Undef, loaded |-> FALSE, loading |-> Undef],
                [lib |-> "factory", loaded |-> TRUE, loading |-> "settled"] } }

\* the wrapped resolver with the second variant's replacement of scope left out
WrappedResolverScopeKept(resolvedDependency, variant, ownHostName) ==
  [resolvedDependency EXCEPT !.lib = Undef, !.loaded = FALSE, !.loading = "mfi"]

\* the object the wrapped resolver builds at each call: the fields of the
\* registered object as they are now, lib, loaded and loading replaced; the
\* second variant also replaces scope
WrappedResolver(resolvedDependency, variant, ownHostName) ==
  LET replaced == [resolvedDependency EXCEPT !.lib = Undef, !.loaded = FALSE, !.loading = "mfi"]
  IN IF variant = 2 THEN [replaced EXCEPT !.scope = << ownHostName >>] ELSE replaced

\* resolveShare: args returned as they are when nothing is resolved, else
\* args with its resolver replaced
shapeResolveShare ==
  /\ build.phase = "new"
  /\ build' = [build EXCEPT
       !.phase = "returned",
       !.returned = IF build.shared = NoDependency
                    THEN build.args
                    ELSE [build.args EXCEPT !.resolver = "wrapped"]]
  /\ UNCHANGED <<c, m, mods, red, pkgMatch, hostReq, hostName, shareLib, loads, stack, ret,
                 results, count, options, trace, steps, world>>

\* the runtime calls the resolver of the arguments it got back
shapeCallResolver ==
  /\ build.phase = "returned"
  /\ Len(build.yielded) < MaxResolverCalls
  /\ build' = [build EXCEPT
       !.yielded = Append(@,
          IF build.returned.resolver = "wrapped"
          THEN WrappedResolver(build.shared, build.variant, build.ownHostName)
          ELSE build.shared)]
  /\ UNCHANGED <<c, m, mods, red, pkgMatch, hostReq, hostName, shareLib, loads, stack, ret,
                 results, count, options, trace, steps, world>>

\* the getter of a loading promise resolved: the registered object is marked
\* as loaded
shapeMarkLoaded ==
  /\ build.phase = "returned"
  /\ build.returned.resolver = "wrapped"
  /\ build.yielded # << >>
  /\ ~build.marked
  /\ build' = [build EXCEPT !.shared = [@ EXCEPT !.lib = "factory", !.loaded = TRUE],
                            !.marked = TRUE]
  /\ UNCHANGED <<c, m, mods, red, pkgMatch, hostReq, hostName, shareLib, loads, stack, ret,
                 results, count, options, trace, steps, world>>

NextShape ==
  \/ shapeResolveShare
  \/ shapeCallResolver
  \/ shapeMarkLoaded

\* a consumer about to resolve a package: what is registered, which variant
\* of the plugin it runs
InitShape ==
  /\ world = "shape"
  /\ Start
  /\ options = [h \in Hosts |-> [stateStrategy |-> UseOrigin, sharedDependencies |-> EmptyFn]]
  /\ build \in { [phase |-> "new", variant |-> variant, ownHostName |-> own,
                  args |-> [pkgName |-> pkgName, version |-> version, resolver |-> "original"],
                  shared |-> shared, registered |-> shared, returned |-> NoDependency,
                  yielded |-> << >>, marked |-> FALSE] :
                 variant \in {1, 2}, own \in {"H1", "H2"}, pkgName \in {"lib", "util"},
                 version \in {"1.0.0", "1.2.0"},
                 shared \in SharedObjects \cup {NoDependency} }

SpecShape == InitShape /\ [][NextShape]_vars

-----------------------------------------------------------------------------
(* The intercepted consumes function and beforeLoadShare: how the placeholder *)
(* of a load is identified                                                   *)

\* the consume-shared placeholders of a bundle; the shareConfig object of
\* each is an object of its own
ConsumePlaceholders == {"p", "q", "k"}
ShareConfigOf(id) == << "shareConfig", id >>

\* the moduleToHandlerMapping objects a call of consumes can carry
HandlerMappings ==
  { [id \in ids |-> [shareInfo |-> [shareConfig |-> ShareConfigOf(id)]]] :
      ids \in (SUBSET ConsumePlaceholders) \ {{}} }

\* moduleToHandlerMapping = args[0].moduleToHandlerMapping
Intercept(seen, mapping) == mapping

\* Object.entries(moduleToHandlerMapping).find(... shareConfig === ...)?.[0]
FindPlaceholder(mapping, shareConfig) ==
  IF \E id \in DOMAIN mapping : mapping[id].shareInfo.shareConfig = shareConfig
  THEN CHOOSE id \in DOMAIN mapping : mapping[id].shareInfo.shareConfig = shareConfig
  ELSE Null

\* `${ownConsumeSharedModuleId}/mfi/scope/${args.origin.name}/${scope}`
PatchedScope(ownConsumeSharedModuleId, originName, scope) ==
  << ownConsumeSharedModuleId, "/mfi/scope/", originName, "/", scope >>

\* the bundler runtime calls consumes for a chunk: the plugin keeps the
\* mapping of the call, the runtime starts a loadShare for every placeholder
\* of the mapping that has none yet
consumesCall(mapping) ==
  /\ build.phase = "consumes"
  /\ build.calls < MaxConsumesCalls
  /\ build' = [build EXCEPT
       !.calls = @ + 1,
       !.moduleToHandlerMapping = Intercept(@, mapping),
       !.registered = @ \cup DOMAIN mapping,
       !.pending = @ \cup ((DOMAIN mapping) \ (DOMAIN build.scope))]
  /\ UNCHANGED <<c, m, mods, red, pkgMatch, hostReq, hostName, shareLib, loads, stack, ret,
                 results, count, options, trace, steps, world>>

\* the beforeLoadShare hook of the loadShare started for placeholder id
beforeLoadShareCall(id) ==
  /\ build.phase = "consumes"
  /\ id \in build.pending
  /\ LET ownConsumeSharedModuleId ==
           FindPlaceholder(build.moduleToHandlerMapping, ShareConfigOf(id))
     IN build' = [build EXCEPT
          !.pending = @ \ {id},
          !.scope = Put(@, id,
             IF ownConsumeSharedModuleId # Null
             THEN PatchedScope(ownConsumeSharedModuleId, "H1", "default")
             ELSE << "default" >>)]
  /\ UNCHANGED <<c, m, mods, red, pkgMatch, hostReq, hostName, shareLib, loads, stack, ret,
                 results, count, options, trace, steps, world>>

\* the loading promise of resolveShare reads the placeholder id off the scope
resolveShareScope(id) ==
  /\ build.phase = "consumes"
  /\ id \in (DOMAIN build.scope) \ (DOMAIN build.served)
  /\ LET scopeMfiMarkIndex == IndexOf(build.scope[id], "/mfi/scope/")
     IN build' = [build EXCEPT
          !.served = Put(@, id,
             IF scopeMfiMarkIndex = 0 THEN << "originalFactory" >>
             ELSE SliceTo(build.scope[id], scopeMfiMarkIndex - 1))]
  /\ UNCHANGED <<c, m, mods, red, pkgMatch, hostReq, hostName, shareLib, loads, stack, ret,
                 results, count, options, trace, steps, world>>

NextConsumes ==
  \/ \E mapping \in HandlerMappings : consumesCall(mapping)
  \/ \E id \in ConsumePlaceholders : beforeLoadShareCall(id)
  \/ \E id \in ConsumePlaceholders : resolveShareScope(id)

\* the plugin constructed: no mapping intercepted yet
InitConsumes ==
  /\ world = "consumes"
  /\ Start
  /\ options = [h \in Hosts |-> [stateStrategy |-> UseOrigin, sharedDependencies |-> EmptyFn]]
  /\ build = [phase |-> "consumes", calls |-> 0, moduleToHandlerMapping |-> EmptyFn,
              registered |-> {}, pending |-> {}, scope |-> EmptyFn, served |-> EmptyFn]

SpecConsumes == InitConsumes /\ [][NextConsumes]_vars



TypeOK ==
  /\ \A h \in Hosts : \A k \in DOMAIN c[h] : c[h][k] \in 1..Len(mods)
  /\ ret \in 0..Len(mods)
  /\ Idle => ret = NoRet
-----------------------------------------------------------------------------
(* Vocabulary of the properties *)

\* the module ids the bundle of host h was built with; every other key of its
\* registry is a synthetic namespaced id
OriginalIds(h) == DOMAIN WebpackModules(h) \cup DOMAIN PlaceholderPkg(h)
IsSynthetic(h, k) == k \notin OriginalIds(h)

\* module record i was instantiated through a translation require of the
\* given strategy; Namespace(i) is the isolation namespace of that require
Through(i, strategy) == mods[i].via.kind = "patched" /\ mods[i].via.strategy = strategy
Namespace(i) == mods[i].via.ns
SameCode(i, j) ==
  mods[i].fmid # "" /\ mods[i].fhost = mods[j].fhost /\ mods[i].fmid = mods[j].fmid

\* a top-level call has just returned value ret to the code of the host
Returned == ~Idle /\ Top.kind = "top" /\ ret # NoRet
ReturnedFromLoad(strategy) ==
  Returned /\ Top.load > 0 /\ loads[Top.load].strategy = strategy

-----------------------------------------------------------------------------
(* C1: under Isolate, the factory of an origin module runs once per isolation
   namespace, the instances of two namespaces (and the native instance of the
   origin) are distinct module records with distinct exports, and an isolated
   instance is only ever handed exports of its own namespace, as is the
   consumer that called the isolated factory. *)
IsolateInstancesDistinct ==
  /\ \A i, j \in DOMAIN mods :
       (i # j /\ Through(i, Isolate) /\ SameCode(i, j))
         => /\ Namespace(i) # Namespace(j)
            /\ mods[i].exports # mods[j].exports
  /\ \A k \in DOMAIN trace :
       (trace[k].what = "see" /\ Through(trace[k].rec, Isolate))
         => /\ mods[trace[k].dep].via.kind = "patched"
            /\ Namespace(trace[k].dep) = Namespace(trace[k].rec)
            /\ mods[trace[k].dep].via.own = mods[trace[k].rec].via.own
  /\ ReturnedFromLoad(Isolate)
       => /\ mods[ret].via.kind = "patched"
          /\ Namespace(ret) = loads[Top.load].lib.req.ns
          /\ mods[ret].via.own = loads[Top.load].consumer

\* two loaded instances of the same origin module in two Isolate namespaces
TwoIsolatedInstances ==
  /\ Idle
  /\ \E i, j \in DOMAIN mods :
       /\ i # j /\ SameCode(i, j)
       /\ Through(i, Isolate) /\ Through(j, Isolate)
       /\ mods[i].loaded /\ mods[j].loaded
       /\ Namespace(i) # Namespace(j)

-----------------------------------------------------------------------------
(* C2: under UseOrigin the loading promise resolves with the original factory
   of the provider, and every call of it hands the consumer the exports of
   the module the provider's own registry holds, the same reference for every
   consumer and for the provider's own code. *)
UseOriginSharesOrigin ==
  /\ \A l \in DOMAIN loads :
       (loads[l].stage = "resolved" /\ loads[l].strategy = UseOrigin)
         => loads[l].lib = OriginalFactory(loads[l].entry)
  /\ ReturnedFromLoad(UseOrigin)
       => /\ Has(c[loads[Top.load].entry.from], loads[Top.load].entry.mid)
          /\ ret = mods[c[loads[Top.load].entry.from][loads[Top.load].entry.mid]].exports
  /\ \A r \in results :
       (r.load > 0 /\ loads[r.load].strategy = UseOrigin)
         => /\ ~r.threw
            /\ \A n \in results :
                 ( \/ n.load > 0 /\ loads[n.load].strategy = UseOrigin
                                 /\ loads[n.load].entry = loads[r.load].entry
                   \/ n.load = 0 /\ n.host = loads[r.load].entry.from
                                 /\ n.key = loads[r.load].entry.mid )
                 => n.value = r.value

\* a consumer and the provider's own code both received the provider's instance
UseOriginShared ==
  \E r, n \in results :
    /\ r.load > 0 /\ loads[r.load].strategy = UseOrigin /\ ~r.threw
    /\ r.host # loads[r.load].entry.from
    /\ n.load = 0 /\ n.host = loads[r.load].entry.from /\ n.key = loads[r.load].entry.mid
    /\ n.value = r.value

-----------------------------------------------------------------------------
(* Vocabulary of the ReuseOwn properties *)

\* the next step is the consumer of load l calling the factory the load
\* resolved with, a factory bound to a translation require of strategy ReuseOwn
CallsReuseOwn(l) ==
  /\ Idle
  /\ loads[l].stage = "resolved"
  /\ loads[l].strategy = ReuseOwn
  /\ loads[l].lib.req.kind = "patched"
  /\ HasUid(loads[l].lib.req.origin, loads[l].lib.mid)
  /\ stack' # << >>
  /\ stack'[1].kind = "top"
  /\ stack'[1].load = l

\* the match memoized by host own for a package version of host origin,
\* Undef while nothing is memoized
Memo(own, origin, uid) ==
  IF Has(pkgMatch[own], hostName[origin])
     /\ Has(pkgMatch[own][hostName[origin]], uid.pkgName \o "~" \o uid.pkgVersion)
  THEN pkgMatch[own][hostName[origin]][uid.pkgName \o "~" \o uid.pkgVersion]
  ELSE Undef

\* the call of load l is answered at once with the exports of the own module
\* of version v at the path of the origin module
AnsweredWithOwn(l, uid, v) ==
  /\ Has(c[loads[l].consumer], PkgModuleId(loads[l].consumer, uid.pkgName, v, uid.modulePath))
  /\ ret' = mods[c[loads[l].consumer]
                  [PkgModuleId(loads[l].consumer, uid.pkgName, v, uid.modulePath)]].exports
  /\ Len(stack') = 1

-----------------------------------------------------------------------------
(* C3, as stated: under ReuseOwn, if the consumer has a local version v whose
   recorded ranges are all satisfied by the origin version, and the local
   module of v at the same path is in the consumer's cache, resolving the
   origin module returns the exports of that local module. *)
ReuseOwnReusesDeclaredCompatible ==
  [][ \A l \in DOMAIN loads :
        CallsReuseOwn(l) =>
          LET own == loads[l].consumer
              uid == midToUid(loads[l].lib.req.origin, loads[l].lib.mid)
          IN \A i \in DOMAIN pkgVersions(own, uid.pkgName) :
               LET v == pkgVersions(own, uid.pkgName)[i]
               IN ( /\ \A range \in SeqRange(v.rangesIn) :
                         semverSatisfies(uid.pkgVersion, range)
                    /\ Has(c[own], PkgModuleId(own, uid.pkgName, v.version, uid.modulePath)) )
                  => AnsweredWithOwn(l, uid, v.version) ]_vars

(* C3, as the code has it: under ReuseOwn, if v is the first local version (in
   manifest order) that satisfies every range recorded for the origin version,
   the local module of v at the same path is in the consumer's cache, and the
   consumer has memoized no other match for that origin package version, then
   resolving the origin module returns the exports of that local module and
   memoizes v, so every repeated resolution returns the same reference. *)
ReuseOwnReusesLoadedCompatible ==
  [][ \A l \in DOMAIN loads :
        CallsReuseOwn(l) =>
          LET own == loads[l].consumer
              origin == loads[l].lib.req.origin
              uid == midToUid(origin, loads[l].lib.mid)
              i == FindFirst(pkgVersions(own, uid.pkgName),
                     LAMBDA e : \A range \in RangesIn(origin, uid.pkgName, uid.pkgVersion) :
                                  semverSatisfies(e.version, range))
              v == VersionAt(pkgVersions(own, uid.pkgName), i)
          IN ( /\ v # Null
               /\ Has(c[own], PkgModuleId(own, uid.pkgName, v, uid.modulePath))
               /\ Memo(own, origin, uid) \in {Undef, v} )
             => /\ AnsweredWithOwn(l, uid, v)
                /\ pkgMatch'[own][hostName[origin]][uid.pkgName \o "~" \o uid.pkgVersion] = v
                /\ c' = c ]_vars

\* the factory of a ReuseOwn load returned the exports of a module the
\* consumer's own bundle had instantiated from its own code
ReusedOwnInstance ==
  /\ ReturnedFromLoad(ReuseOwn)
  /\ Len(stack) = 1
  /\ mods[ret].via.kind # "patched"
  /\ mods[ret].fhost = loads[Top.load].consumer
  /\ mods[ret].fhost # loads[Top.load].entry.from
  /\ mods[ret].loaded

-----------------------------------------------------------------------------
(* C4: under ReuseOwn, when the consumer has no version of the origin module's
   package, the match is memoized as null; whenever the memoized match is
   null the module is a private instance cached in the consumer's registry
   under the namespaced id and under no id of the consumer's bundle; and no
   call of a ReuseOwn factory fails. *)
ReuseOwnFallsBackToIsolation ==
  /\ \A i \in DOMAIN mods :
       (Through(i, ReuseOwn) /\ HasUid(mods[i].fhost, mods[i].fmid)) =>
         LET own == mods[i].via.own
             uid == midToUid(mods[i].fhost, mods[i].fmid)
         IN /\ Memo(own, mods[i].fhost, uid) # Undef
            /\ pkgVersions(own, uid.pkgName) = << >>
                 => Memo(own, mods[i].fhost, uid) = Null
            /\ Memo(own, mods[i].fhost, uid) = Null
                 => /\ mods[i].id = IsolatedModuleId(Namespace(i), mods[i].fmid)
                    /\ \A j \in DOMAIN mods :
                         (j # i /\ SameCode(i, j)) => mods[j].exports # mods[i].exports
                    /\ (Idle /\ mods[i].loaded)
                         => /\ Has(c[own], mods[i].id)
                            /\ c[own][mods[i].id] = i
                            /\ \A k \in OriginalIds(own) :
                                 ~(Has(c[own], k) /\ c[own][k] = i)
  /\ \A r \in results :
       (r.load > 0 /\ loads[r.load].strategy = ReuseOwn) => ~r.threw

\* a ReuseOwn consumer without any version of the package holds its private
\* instance under the namespaced id
IsolatedForLackOfVersion ==
  /\ Idle
  /\ \E i \in DOMAIN mods :
       /\ Through(i, ReuseOwn)
       /\ HasUid(mods[i].fhost, mods[i].fmid)
       /\ pkgVersions(mods[i].via.own, midToUid(mods[i].fhost, mods[i].fmid).pkgName) = << >>
       /\ mods[i].loaded
       /\ c[mods[i].via.own][mods[i].id] = i
  /\ \E r \in results : r.load > 0 /\ loads[r.load].strategy = ReuseOwn /\ ~r.threw

-----------------------------------------------------------------------------
(* Vocabulary of the properties about one resolution *)

AllModuleIds == UNION { DOMAIN WebpackModules(h) : h \in Hosts }

\* the largest number of require calls in the code of one module
MaxRequires ==
  CHOOSE n \in 0..8 :
    /\ \A h \in Hosts : \A k \in DOMAIN WebpackModules(h) : Len(WebpackModules(h)[k]) <= n
    /\ \E h \in Hosts : \E k \in DOMAIN WebpackModules(h) : Len(WebpackModules(h)[k]) = n

\* steps one operation can take: per module the require that enters it, two
\* per require of its code, its end, and the returns through the translation
\* require and the consume factory
StepBound == 1 + Cardinality(AllModuleIds) * (4 + 2 * MaxRequires)

\* the running operation has a next step: code goes on or ends, a consume
\* factory calls its lib, a returned value is taken by the frame below
CanStep ==
  \/ ret = NoRet /\ Top.kind = "code"
  \/ ret = NoRet /\ Top.kind = "consume" /\ Top.pc = 0
  \/ ret # NoRet /\ Top.kind \in {"code", "trans", "consume", "top", "load"}

\* the frames of the stack that run the code of a module
CodeFrames == { i \in DOMAIN stack : stack[i].kind = "code" }

\* the events of the trace in which a factory is entered
Enters == { i \in DOMAIN trace : trace[i].what = "enter" }

\* a require of a module instantiated through a translation require was
\* answered with the exports of a module that had not finished instantiating
ReentrantSees ==
  { i \in DOMAIN trace :
      /\ trace[i].what = "see"
      /\ ~trace[i].loaded
      /\ mods[trace[i].rec].via.kind = "patched" }

-----------------------------------------------------------------------------
(* C5: a resolution under Isolate or ReuseOwn terminates on every module
   graph, cyclic or not: within one resolution no factory is entered twice
   under the same key of the same registry, every module being instantiated
   is in the cache of the registry it runs in (so a re-entrant request is
   answered from that slot, with the unfinished exports, without recursing),
   the depth of the call stack and the number of steps of the resolution are
   bounded by the size of the module graph, and a resolution that has not
   returned always has a next step. *)
EnteredOncePerResolution ==
  /\ \A i, j \in Enters :
       i # j => \/ mods[trace[i].rec].reg # mods[trace[j].rec].reg
                \/ mods[trace[i].rec].id # mods[trace[j].rec].id
  /\ \A i, j \in CodeFrames :
       i # j => \/ stack[i].host # stack[j].host
                \/ stack[i].key # stack[j].key
  /\ \A i \in CodeFrames :
       /\ Has(c[stack[i].host], stack[i].key)
       /\ c[stack[i].host][stack[i].key] = stack[i].rec
       /\ ~mods[stack[i].rec].loaded
  /\ \A i \in ReentrantSees :
       \E j \in CodeFrames \cup {0} :
         IF j = 0 THEN \E k \in Enters : k < i /\ trace[k].rec = trace[i].dep
         ELSE stack[j].rec = trace[i].dep
  /\ Len(stack) <= 1 + 3 * Cardinality(AllModuleIds)
  /\ steps <= StepBound
  /\ ~Idle => CanStep

\* a translated resolution that went around a cycle crossing two registries
\* has returned to the consumer
CrossRegistryCycleResolved ==
  /\ Returned
  /\ Top.load > 0
  /\ loads[Top.load].strategy # UseOrigin
  /\ mods[ret].loaded
  /\ \E i \in ReentrantSees :
       /\ mods[trace[i].rec].reg # mods[trace[i].dep].reg
       /\ trace[i].rec # trace[i].dep

-----------------------------------------------------------------------------
(* The run of the native require of one bundle on a module of it, from an
   empty cache: the factories entered and left and the exports each require
   of a module of the bundle is answered with, finished or not *)

NativeEvent(what, mid, dep, loaded) ==
  [what |-> what, mid |-> mid, dep |-> dep, loaded |-> loaded]

RECURSIVE NativeVisit(_, _, _)
RECURSIVE NativeRequires(_, _, _, _)

NativeVisit(h, k, run) ==
  IF k \in run.started THEN run
  ELSE LET after == NativeRequires(h, k, 1,
                      [run EXCEPT !.started = @ \cup {k},
                                  !.events = Append(@, NativeEvent("enter", k, "", FALSE))])
       IN [after EXCEPT !.finished = @ \cup {k},
                        !.events = Append(@, NativeEvent("exit", k, "", TRUE))]

NativeRequires(h, k, i, run) ==
  IF i > Len(WebpackModules(h)[k]) THEN run
  ELSE IF WebpackModules(h)[k][i] \notin DOMAIN WebpackModules(h)
  THEN NativeRequires(h, k, i + 1, run)
  ELSE LET dep == WebpackModules(h)[k][i]
           after == NativeVisit(h, dep, run)
       IN NativeRequires(h, k, i + 1,
            [after EXCEPT !.events =
               Append(@, NativeEvent("see", k, dep, dep \in after.finished))])

NativeTrace(h, k) ==
  NativeVisit(h, k, [started |-> {}, finished |-> {}, events |-> << >>]).events

\* the modules of bundle h the code of module k reaches without leaving h
Reach(h, k) == Closure(h, {k}, {}) \cap DOMAIN WebpackModules(h)

\* module record i is the instance, in the namespace of load l, of a module
\* of the provider's bundle reached from the provided module
InNamespaceOf(l, i) ==
  /\ mods[i].via.kind = "patched"
  /\ Namespace(i) = loads[l].lib.req.ns
  /\ mods[i].via.own = loads[l].consumer
  /\ mods[i].fhost = loads[l].lib.req.origin
  /\ mods[i].fmid \in Reach(loads[l].lib.req.origin, loads[l].lib.mid)

\* the trace of the running resolution of load l, restricted to those
\* instances, with every namespaced id mapped back to the id of the bundle
NamespacedTrace(l) ==
  LET kept == SelectSeq(trace,
                LAMBDA e : /\ InNamespaceOf(l, e.rec)
                           /\ e.what = "see" => InNamespaceOf(l, e.dep))
  IN [i \in DOMAIN kept |->
        NativeEvent(kept[i].what, mods[kept[i].rec].fmid,
                    IF kept[i].what = "see" THEN mods[kept[i].dep].fmid ELSE "",
                    kept[i].loaded)]

IsPrefix(s, t) == Len(s) <= Len(t) /\ s = SubSeq(t, 1, Len(s))

\* the consumer's call of the factory of Isolate load l is running and had to
\* instantiate the provided module
IsolatedResolutionOf(l) ==
  /\ ~Idle
  /\ stack[1].kind = "top"
  /\ stack[1].load = l
  /\ loads[l].strategy = Isolate
  /\ trace # << >>

-----------------------------------------------------------------------------
(* C6: when a module graph with a cycle is resolved under Isolate, the
   namespaced instances are entered and left in the order, and answered with
   the finished or unfinished exports of one another, that the native
   require of the provider's bundle produces for the same modules: at every
   step the namespaced run is a prefix of the native run, and when the
   resolution returns the two runs are equal. *)
IsolatedCycleRunsAsNative ==
  \A l \in DOMAIN loads :
    IsolatedResolutionOf(l) =>
      /\ IsPrefix(NamespacedTrace(l), NativeTrace(loads[l].lib.req.origin, loads[l].lib.mid))
      /\ Returned =>
           NamespacedTrace(l) = NativeTrace(loads[l].lib.req.origin, loads[l].lib.mid)

\* an isolated resolution of a cycle returned: one instance was answered with
\* the unfinished exports of another one of its namespace
IsolatedCycleCompleted ==
  /\ Returned
  /\ Top.load > 0
  /\ IsolatedResolutionOf(Top.load)
  /\ \E i \in DOMAIN NamespacedTrace(Top.load) :
       /\ NamespacedTrace(Top.load)[i].what = "see"
       /\ ~NamespacedTrace(Top.load)[i].loaded
       /\ NamespacedTrace(Top.load)[i].mid # NamespacedTrace(Top.load)[i].dep

-----------------------------------------------------------------------------
(* Vocabulary of the properties about what a resolution leaves behind *)

\* no call and no load has failed so far
NothingThrew ==
  /\ \A r \in results : ~r.threw
  /\ \A l \in DOMAIN loads : loads[l].stage # "rejected"

\* cache slot k of registry h holds the instance a translation require of
\* consumer h moved there for good
PermanentTarget(h, k) ==
  /\ mods[c[h][k]].via.kind = "patched"
  /\ mods[c[h][k]].via.own = h
  /\ mods[c[h][k]].loaded

-----------------------------------------------------------------------------
(* C7: after every completed top-level resolution, with any strategy and any
   pair of consumer and origin registries, the same registry twice included,
   no factory table holds an entry under a namespaced id, and a cache holds
   a namespaced slot only where that slot is the permanent target of the
   instance. The source keeps the namespaced factory when the consumer is
   the origin registry: the property is violated. *)
SyntheticEntriesDeleted ==
  (Returned /\ NothingThrew) =>
    \A h \in Hosts :
      /\ \A k \in DOMAIN m[h] : ~IsSynthetic(h, k)
      /\ \A k \in DOMAIN c[h] : IsSynthetic(h, k) => PermanentTarget(h, k)

-----------------------------------------------------------------------------
(* The steps of a translation require: the call, which ends in
   originRequire(isolatedModuleId), and the lines after that call returned *)

\* the translation require whose call of originRequire returns in this step
ReturningTrans == ~Idle /\ ret # NoRet /\ Top.kind = "trans"

\* the origin registries of the translation requires that act in this step
TranslationOrigins ==
  { stack'[i].host : i \in { j \in DOMAIN stack' : j > Len(stack) /\ stack'[j].kind = "trans" } }
    \cup (IF ReturningTrans THEN {Top.host} ELSE {})

SameEntry(f, g, k) == (Has(f, k) <=> Has(g, k)) /\ (Has(f, k) => f[k] = g[k])

\* the returning translation require of ReuseOwn claims slot k of registry h,
\* its own registry and the origin registry at once, for the instance it made
ClaimsOwnSlot(h, k) ==
  /\ ReturningTrans
  /\ Top.own = h
  /\ Top.host = h
  /\ Top.ownKey = k
  /\ Top.iso # k
  /\ k \in DOMAIN WebpackModules(h)
  /\ Has(c[h], Top.iso)
  /\ mods[c[h][Top.iso]].via.strategy = ReuseOwn
  /\ c'[h][k] = c[h][Top.iso]

-----------------------------------------------------------------------------
(* C8 as stated: a translation require never creates, replaces or deletes
   the cache entry or the factory entry of its origin registry under an
   original id. Violated when ReuseOwn claims a slot of the consumer and the
   consumer is the origin registry. *)
OriginalEntriesUntouched ==
  [][\A h \in TranslationOrigins : \A k \in OriginalIds(h) :
       /\ SameEntry(m[h], m'[h], k)
       /\ SameEntry(c[h], c'[h], k)]_vars

(* C8: a translation require never creates, replaces or deletes a factory
   entry of its origin registry under an original id, and never replaces or
   deletes a cache entry of it under an original id; it creates such a
   cache entry only under ReuseOwn, when the consumer is itself the origin
   registry and the entry is the unused slot of the consumer's own module
   claimed for the new instance. *)
OriginalEntriesKeptButClaimedSlot ==
  [][\A h \in TranslationOrigins : \A k \in OriginalIds(h) :
       /\ SameEntry(m[h], m'[h], k)
       /\ Has(c[h], k) => Has(c'[h], k) /\ c'[h][k] = c[h][k]
       /\ (~Has(c[h], k) /\ Has(c'[h], k)) => ClaimsOwnSlot(h, k)]_vars

\* a translation require of ReuseOwn has claimed an original slot of a
\* registry that is its consumer and its origin registry
OwnSlotClaimedInOrigin ==
  /\ Returned
  /\ \E h \in Hosts : \E k \in DOMAIN WebpackModules(h) :
       /\ Has(c[h], k)
       /\ PermanentTarget(h, k)
       /\ mods[c[h][k]].via.strategy = ReuseOwn
       /\ mods[c[h][k]].fhost = h
       /\ mods[c[h][k]].id # k

-----------------------------------------------------------------------------
(* C9: for every placeholder the fallback scan of the origin cache runs at
   most once: a second load of the placeholder reads the redirection saved
   by the first one. The source scans on every load whose entry carries no
   provided module id: the property is violated. *)
ScannedOncePerPlaceholder ==
  \A l1, l2 \in DOMAIN loads :
    ( /\ l1 # l2
      /\ loads[l1].consumer = loads[l2].consumer
      /\ loads[l1].placeholder = loads[l2].placeholder
      /\ loads[l1].scanned = 1 )
    => loads[l2].scanned = 0

-----------------------------------------------------------------------------
(* C10: a redirection entry that is fully known (target id and owning
   registry) is never overwritten, demoted or removed by a later load, so it
   is promoted at most once. The source writes the entry on every load: the
   property is violated. *)
FullyKnown(r) == Truthy(r.mid) /\ r.webpackRequire # Undef

FullyKnownRedirectionKept ==
  [][\A h \in Hosts : \A p \in DOMAIN red[h] :
       FullyKnown(red[h][p]) => Has(red'[h], p) /\ red'[h][p] = red[h][p]]_vars

-----------------------------------------------------------------------------
(* Vocabulary of the properties about loads that cannot be redirected *)

\* the loading promise of load l settles in this step
Settles(l) == loads[l].stage = "pending" /\ loads'[l].stage # "pending"

\* the scan of the provider's cache that ends the fallback of load l finds
\* no module whose exports are the instance the original factory returned
ScanFinds(l) ==
  IF ~Idle /\ Top.kind = "load" /\ Top.load = l /\ ret # NoRet
     /\ loads[l].entry.from \in Hosts /\ hostReq[loads[l].entry.from] # Undef
  THEN ScanCache(St, hostReq[loads[l].entry.from], ret)
  ELSE Undef

\* the redirection of load l cannot be obtained: no instance named like the
\* provider, no require exposed on it, no mark in the scope, or no provided
\* module id from the getter and none from the scan
Unobtainable(l) ==
  \/ loads[l].entry.from \notin Hosts
  \/ hostReq[loads[l].entry.from] = Undef
  \/ ~loads[l].marked
  \/ loads[l].provided = Undef /\ ScanFinds(l) = Undef

SyntheticKeys(f, h) == { k \in DOMAIN f[h] : IsSynthetic(h, k) }

-----------------------------------------------------------------------------
(* C11: when the redirection of a load cannot be obtained (no federation
   instance named like the provider, no require exposed on the provider, no
   placeholder mark in the scope, or no provider module id from either path)
   the loading promise resolves with the provider's original factory, saves
   no redirection, creates no namespaced entry in any registry, and neither
   rejects nor throws. *)
DegradesToOriginalFactory ==
  [][\A l \in DOMAIN loads :
       (Settles(l) /\ Unobtainable(l)) =>
         /\ loads'[l].stage = "resolved"
         /\ loads'[l].lib = OriginalFactory(loads[l].entry)
         /\ red' = red
         /\ results' = results
         /\ \A h \in Hosts :
              /\ SyntheticKeys(m', h) \subseteq SyntheticKeys(m, h)
              /\ SyntheticKeys(c', h) \subseteq SyntheticKeys(c, h)]_vars

\* two loads of a consumer that isolates degraded: one after a fallback whose
\* scan found nothing, one for lack of a mark or of an exposed require
TwoLoadsDegraded ==
  \E l1, l2 \in DOMAIN loads :
    /\ loads[l1].stage = "resolved" /\ loads[l2].stage = "resolved"
    /\ loads[l1].strategy # UseOrigin /\ loads[l2].strategy # UseOrigin
    /\ loads[l1].scanned = 1
    /\ loads[l1].lib = OriginalFactory(loads[l1].entry)
    /\ loads[l2].scanned = 0
    /\ loads[l2].lib = OriginalFactory(loads[l2].entry)
    /\ \/ ~loads[l2].marked
       \/ loads[l2].entry.from \notin Hosts
       \/ hostReq[loads[l2].entry.from] = Undef

-----------------------------------------------------------------------------
(* C12: once both ways of locating the provided module have failed for a
   placeholder, its redirection is the terminal Resolved(null) and a later
   load of the placeholder hands out the original factory without looking
   for the provided module again. *)

\* load l went through both ways (the getter carried no module id, the scan
\* of the provider's cache found nothing) and settled with the original factory
FailedBothPaths(l) ==
  /\ loads[l].stage = "resolved"
  /\ loads[l].strategy # UseOrigin
  /\ loads[l].marked
  /\ InstanceReq(loads[l].entry.from) # Undef
  /\ loads[l].provided = Undef
  /\ loads[l].scanned = 1
  /\ loads[l].lib = OriginalFactory(loads[l].entry)

\* C12 as stated: a load of the same placeholder that settles after the
\* failure settled without a scan of the provider's cache
NoScanAfterFailure ==
  [][\A l1, l2 \in DOMAIN loads :
       ( /\ FailedBothPaths(l1)
         /\ l2 # l1
         /\ loads[l2].consumer = loads[l1].consumer
         /\ loads[l2].placeholder = loads[l1].placeholder
         /\ Settles(l2) )
       => loads'[l2].scanned = 0]_vars

-----------------------------------------------------------------------------
(* C13: in a bundle whose runtime carries no manifest every hook of the
   plugin completes without raising. *)

\* C13 as stated: no hook that ran in a bundle without manifest raised
ManifestlessHooksComplete ==
  \A r \in results : ~HasIsolation(r.host) => ~r.threw

-----------------------------------------------------------------------------
(* Properties of the manifest: compaction at build time, expansion at run time *)

\* the runtime of the bundle has expanded its manifest
Expanded == build.phase = "emitted" /\ build.isolation.initiated

\* the expanded mapping of the n-th package and version is the mapping the
\* build plugin collected: same paths, same ids
SameMapping(n) ==
  /\ build.isolation.pkg[n].pkgName = build.manifest[n].pkgName
  /\ build.isolation.pkg[n].version = build.manifest[n].version
  /\ Len(build.isolation.pkg[n].paths) = Len(build.manifest[n].modulePathToModuleId)
  /\ ObjPairs(build.isolation.pkg[n].paths) = ObjPairs(build.manifest[n].modulePathToModuleId)

\* the directory of a module path is the name of a member every object inherits
InheritedDirectory(modulePath) ==
  /\ LastIndexOf(SplitLoaderQuery(modulePath), "/") # 0
  /\ SliceTo(modulePath, LastIndexOf(SplitLoaderQuery(modulePath), "/") - 1) \in Inherited

\* C14 as stated: compacting a manifest and expanding it gives back, for
\* every package and version, exactly the mapping from module path to module id
RoundTripExact ==
  Expanded =>
    /\ Len(build.isolation.pkg) = Len(build.manifest)
    /\ \A n \in DOMAIN build.manifest : SameMapping(n)

\* what does hold: the round trip is exact for every manifest none of whose
\* directories is named like an inherited member
RoundTripExactOffInherited ==
  ( /\ Expanded
    /\ \A n \in DOMAIN build.manifest :
         \A i \in DOMAIN build.manifest[n].modulePathToModuleId :
           ~InheritedDirectory(build.manifest[n].modulePathToModuleId[i].k) )
  => /\ Len(build.isolation.pkg) = Len(build.manifest)
     /\ \A n \in DOMAIN build.manifest : SameMapping(n)

\* C15 as stated: in the compacted manifest every directory prefix occurs
\* exactly once in the list of prefixes
PrefixesOccurOnce ==
  build.phase = "emitted" =>
    \A i, j \in DOMAIN build.isolation.pre :
      build.isolation.pre[i] = build.isolation.pre[j] => i = j

\* C16: once the manifest of a bundle is expanded, a further construction of
\* the plugin leaves the expanded paths, the reverse index, the version lists
\* and the memoized matches as they are
ExpansionIdempotent ==
  [][( /\ Expanded
       /\ build'.plugins # build.plugins )
     => build'.isolation = build.isolation]_vars

\* the plugin was constructed again after a match was memoized in a bundle
\* whose manifest has a compacted path
ExpandedTwiceAfterMatch ==
  /\ Expanded
  /\ Len(build.isolation.pre) > 0
  /\ build.isolation.pkgMatch # << >>
  /\ \E i, j \in DOMAIN build.log :
       i < j /\ build.log[i] = "storeMatch" /\ build.log[j] = "plugin"

-----------------------------------------------------------------------------
(* C17: the strategy of a load is the strategy of the override whose key is
   the package name of the dependency, or the global default of the consumer
   when there is no such override. *)

\* the strategy the options of the consumer of load l configure for its package
ConfiguredStrategy(l) ==
  IF loads[l].entry.pkgName \in DOMAIN options[loads[l].consumer].sharedDependencies
  THEN options[loads[l].consumer].sharedDependencies[loads[l].entry.pkgName].stateStrategy
  ELSE options[loads[l].consumer].stateStrategy

\* C17 as stated: every load runs with the configured strategy
StrategyIsOverrideOrDefault ==
  \A l \in DOMAIN loads : loads[l].strategy = ConfiguredStrategy(l)

\* what does hold: every load of a package whose name no object inherits
\* runs with the configured strategy
StrategyIsOverrideOrDefaultOffInherited ==
  \A l \in DOMAIN loads :
    loads[l].entry.pkgName \notin InheritedNames => loads[l].strategy = ConfiguredStrategy(l)

-----------------------------------------------------------------------------
(* C18: with an entry option that names bundles the build plugin is applied
   to those bundles only. *)

\* C18 as stated: once the compilation is through, if the entry option names
\* bundles, a runtime plugin was injected only into module federation plugins
\* of those names and the manifest attached only to chunks of those names; if
\* it names none, every module federation plugin and every chunk with a
\* runtime got them
EntryFilterApplied ==
  build.phase = "attached" =>
    IF LocalRemoteEntriesToApply(build.entry) # {}
    THEN /\ \A i \in DOMAIN build.injected :
              build.injected[i].name \in LocalRemoteEntriesToApply(build.entry)
         /\ \A i \in build.attached :
              build.chunks[i].name \in LocalRemoteEntriesToApply(build.entry)
    ELSE /\ \A i \in DOMAIN build.plugins :
              build.plugins[i].ctor = "ModuleFederationPlugin"
              => \E j \in DOMAIN build.injected : build.injected[j].at = i
         /\ \A i \in DOMAIN build.chunks : build.chunks[i].hasRuntime => i \in build.attached

\* what does hold: whatever the entry option, every module federation plugin
\* and every chunk with a runtime got them
AppliedToAll ==
  build.phase = "attached" =>
    /\ \A i \in DOMAIN build.plugins :
         build.plugins[i].ctor = "ModuleFederationPlugin"
         => \E j \in DOMAIN build.injected : build.injected[j].at = i
    /\ \A i \in DOMAIN build.chunks : build.chunks[i].hasRuntime => i \in build.attached

-----------------------------------------------------------------------------
(* C19: namespaces and namespaced module ids are free of collisions. *)

\* C19 as stated: two different triples of consumer, package and version
\* never get the same namespace, and two different pairs of namespace and
\* origin module id never get the same namespaced id
NamesCollisionFree ==
  build.phase = "translated" =>
    /\ build.triples[1] # build.triples[2] => build.ns[1] # build.ns[2]
    /\ << build.ns[1], build.mids[1] >> # << build.ns[2], build.mids[2] >>
       => build.isolatedModuleId[1] # build.isolatedModuleId[2]

\* the first half alone
NamespacesCollisionFree ==
  build.phase = "translated" =>
    (build.triples[1] # build.triples[2] => build.ns[1] # build.ns[2])

\* the second half alone
NamespacedIdsCollisionFree ==
  build.phase = "translated" =>
    (<< build.ns[1], build.mids[1] >> # << build.ns[2], build.mids[2] >>
       => build.isolatedModuleId[1] # build.isolatedModuleId[2])

-----------------------------------------------------------------------------
(* C20: a key of a cache stands for one module of one registry. *)

\* the code of a module that runs through a translation require of strategy
\* Isolate is about to require its next dependency
IsolatedRequire ==
  /\ ~Idle
  /\ ret = NoRet
  /\ Top.kind = "code"
  /\ Top.pc <= Len(Deps(Top))
  /\ Top.req.kind = "patched"
  /\ Top.req.strategy = Isolate

\* the registry and the module id that require call stands for, after the
\* redirection of a placeholder
RequiredOrigin == Redirect(Top.req, Deps(Top)[Top.pc])

\* C20 as stated: a translation require that serves a module from a cache
\* serves the module of the registry and the id it was asked for
KeyServesItsOrigin ==
  [][( /\ IsolatedRequire
       /\ RequiredOrigin.originModuleId \in DOMAIN WebpackModules(RequiredOrigin.originRequire)
       /\ Len(trace') = Len(trace) + 1
       /\ trace'[Len(trace')].what = "see" )
     => /\ mods'[trace'[Len(trace')].dep].fhost = RequiredOrigin.originRequire
        /\ mods'[trace'[Len(trace')].dep].fmid = RequiredOrigin.originModuleId]_vars

\* a module was served from a cache to code running through a translation
\* require after a redirection to another registry
ServedAcrossRegistries ==
  \E i \in DOMAIN trace :
    /\ trace[i].what = "see"
    /\ mods[trace[i].rec].via.kind = "patched"
    /\ mods[trace[i].rec].via.strategy = Isolate
    /\ mods[trace[i].dep].fhost # ""
    /\ mods[trace[i].dep].fhost # mods[trace[i].rec].fhost

-----------------------------------------------------------------------------
(* C21: the version match memoized by a consumer for a (peer bundle name,
   package name~version) pair is never changed or removed by a later step,
   the memoized null included, whatever is instantiated in the consumer
   afterwards. *)
MatchMemoizedOnce ==
  [][ \A own \in Hosts : \A peer \in DOMAIN pkgMatch[own] :
        /\ peer \in DOMAIN pkgMatch'[own]
        /\ \A id \in DOMAIN pkgMatch[own][peer] :
             /\ id \in DOMAIN pkgMatch'[own][peer]
             /\ pkgMatch'[own][peer][id] = pkgMatch[own][peer][id] ]_vars

\* a second call of a ReuseOwn factory has returned while the memoized match
\* differs from what the version search would find in the consumer's cache now
MemoOutlivesItsReason ==
  /\ ReturnedFromLoad(ReuseOwn)
  /\ count.lib = 2
  /\ LET own == loads[Top.load].consumer
         origin == loads[Top.load].lib.req.origin
     IN /\ HasUid(origin, loads[Top.load].lib.mid)
        /\ Memo(own, origin, midToUid(origin, loads[Top.load].lib.mid)) # Undef
        /\ Memo(own, origin, midToUid(origin, loads[Top.load].lib.mid))
             # MatchVersion(St, own, origin, midToUid(origin, loads[Top.load].lib.mid))

-----------------------------------------------------------------------------
(* Vocabulary of the properties about one translation *)

\* the consumer, the registry and the module a call of translation require
\* req with module id mid stands for, after the redirection of a placeholder
Translated(req, mid) ==
  [own |-> req.own, origin |-> Redirect(req, mid).originRequire,
   mid |-> Redirect(req, mid).originModuleId, ns |-> req.ns, strategy |-> req.strategy]

\* the calls of a translation require the next step can make
TranslationsNext ==
  IF Idle
  THEN { Translated(loads[l].lib.req, loads[l].lib.mid) :
           l \in { k \in DOMAIN loads : /\ loads[k].stage = "resolved"
                                        /\ loads[k].lib.req.kind = "patched" } }
  ELSE IF ret = NoRet /\ Top.kind = "code" /\ Top.pc <= Len(Deps(Top))
          /\ Top.req.kind = "patched"
  THEN { Translated(Top.req, Deps(Top)[Top.pc]) }
  ELSE IF ret = NoRet /\ Top.kind = "consume" /\ Top.pc = 0 /\ Top.lib.req.kind = "patched"
  THEN { Translated(Top.lib.req, Top.lib.mid) }
  ELSE {}

\* the match memoized after the step
MemoNext(own, origin, uid) ==
  IF Has(pkgMatch'[own], hostName[origin])
     /\ Has(pkgMatch'[own][hostName[origin]], uid.pkgName \o "~" \o uid.pkgVersion)
  THEN pkgMatch'[own][hostName[origin]][uid.pkgName \o "~" \o uid.pkgVersion]
  ELSE Undef

\* position i is the first one in test
FirstAt(i, test) == i \in test /\ \A j \in 1..(i - 1) : j \notin test

\* v is what the two queries yield for module uid of origin, each query
\* taking the first version of the consumer's list that passes its check
FirstInManifestOrder(own, origin, uid, v) ==
  LET vs == pkgVersions(own, uid.pkgName)
      sat1 == { i \in DOMAIN vs :
                  \A range \in RangesIn(origin, uid.pkgName, uid.pkgVersion) :
                    semverSatisfies(vs[i].version, range) }
      sat2 == { i \in DOMAIN vs :
                  \A range \in SeqRange(vs[i].rangesIn) :
                    semverSatisfies(uid.pkgVersion, range) }
      loadedAt == { i \in DOMAIN vs :
                      Has(c[own], PkgModuleId(own, uid.pkgName, vs[i].version,
                                              uid.modulePath)) }
      first1 == { i \in DOMAIN vs : FirstAt(i, sat1) }
      first2 == { i \in DOMAIN vs : FirstAt(i, sat2) }
  IN IF first1 \cap loadedAt # {}
     THEN \E i \in first1 : v = vs[i].version
     ELSE IF first2 \ loadedAt # {}
     THEN \E i \in first2 : v = vs[i].version
     ELSE v = Null

-----------------------------------------------------------------------------
(* C22: the two version queries of the ReuseOwn search take the first
   satisfying candidate in the order of the consumer's manifest.  Whenever a
   match is memoized, it was found for the module being translated and it is:
   the first own version satisfying every range recorded for the origin
   version, if its module is loaded; else the first own version whose
   recorded ranges the origin version satisfies, if its module is not loaded;
   else null.  A query finds nothing only when no version of the consumer
   passes its check. *)
VersionQueriesTakeFirst ==
  [][ \A own \in ManifestHosts, origin \in ManifestHosts : \A uid \in UidEntries(origin) :
        (hostName[origin] # Undef /\ Memo(own, origin, uid) = Undef
           /\ MemoNext(own, origin, uid) # Undef) =>
          \E t \in TranslationsNext :
            /\ t.own = own /\ t.origin = origin /\ t.strategy = ReuseOwn
            /\ HasUid(origin, t.mid)
            /\ midToUid(origin, t.mid).pkgName = uid.pkgName
            /\ midToUid(origin, t.mid).pkgVersion = uid.pkgVersion
            /\ FirstInManifestOrder(own, origin, midToUid(origin, t.mid),
                                    MemoNext(own, origin, uid)) ]_vars

\* the versions 1.0.0 and 1.3.0 of the consumer, in this order, both pass both
\* queries; the older one, met first by the build, is the memoized match
FirstTakenNotBest ==
  /\ world = "order"
  /\ Returned
  /\ build.versions[1].version = "1.0.0"
  /\ build.ranges = <<"^1.0.0">>
  /\ \A i \in 1..2 : build.versions[i].rangesIn = <<"^1.0.0">>
  /\ Memo("H1", "H2", midToUid("H2", "x")) = "1.0.0"

-----------------------------------------------------------------------------
(* C23: under ReuseOwn, an origin instance stored in the consumer's cache
   under the id of a local module stays there: the entry is never replaced or
   deleted, the consumer's registry never instantiates a module under that id
   again, and a native require of that id by the consumer's code is answered
   at once with the stored instance. *)

\* the local module ids of host h whose cache entry holds an instance that
\* a ReuseOwn translation require created under another key
ClaimedSlots(h) ==
  { k \in DOMAIN WebpackModules(h) :
      /\ Has(c[h], k)
      /\ mods[c[h][k]].id # k
      /\ mods[c[h][k]].via.kind = "patched"
      /\ mods[c[h][k]].via.strategy = ReuseOwn }

ClaimedSlotServesEveryone ==
  [][ \A h \in ManifestHosts : \A k \in ClaimedSlots(h) :
        /\ Has(c'[h], k)
        /\ c'[h][k] = c[h][k]
        /\ \A j \in DOMAIN mods' :
             (j \notin DOMAIN mods) => ~(mods'[j].reg = h /\ mods'[j].id = k)
        /\ ( Idle /\ stack' # << >> /\ stack'[1].kind = "top" /\ stack'[1].load = 0
             /\ stack'[1].host = h /\ stack'[1].key = k )
           => /\ ret' = mods[c[h][k]].exports
              /\ mods' = mods ]_vars

\* the consumer's own code required a local module whose slot holds an
\* instance of a module of another bundle, and was handed that instance
ClaimedSlotServedNatively ==
  /\ Returned
  /\ Top.load = 0
  /\ Top.key \in ClaimedSlots(Top.host)
  /\ mods[ret].fhost # Top.host
  /\ ret = mods[c[Top.host][Top.key]].exports

-----------------------------------------------------------------------------
(* C24: in the step in which a load whose redirection can be obtained
   completes, the redirection of its placeholder is the pair of the provided
   module id and the provider's registry; and after every step, every
   completed load that handed out an isolation-aware factory has a
   redirection of its placeholder that holds both a module id and a
   registry. *)
RedirectionSavedWithLoad ==
  [][ /\ \A l \in DOMAIN loads :
           (Settles(l) /\ ~Unobtainable(l)) =>
             /\ loads'[l].stage = "resolved"
             /\ Has(red'[loads[l].consumer], loads[l].placeholder)
             /\ red'[loads[l].consumer][loads[l].placeholder] =
                  [mid |-> IF loads[l].provided # Undef THEN loads[l].provided
                           ELSE ScanFinds(l),
                   webpackRequire |-> hostReq[loads[l].entry.from]]
      /\ \A l \in DOMAIN loads' :
           (loads'[l].stage = "resolved" /\ loads'[l].lib.req.kind = "patched") =>
             /\ Has(red'[loads'[l].consumer], loads'[l].placeholder)
             /\ FullyKnown(red'[loads'[l].consumer][loads'[l].placeholder]) ]_vars

\* a load has completed after a scan with a factory bound to a translation
\* require, another one with the original factory under UseOrigin, and the
\* redirections of both placeholders point at the provided modules
TwoRedirectionsSaved ==
  /\ Idle
  /\ \E l, k \in DOMAIN loads :
       /\ loads[l].stage = "resolved" /\ loads[l].lib.req.kind = "patched"
       /\ loads[l].scanned = 1
       /\ red[loads[l].consumer][loads[l].placeholder] =
            [mid |-> loads[l].lib.mid, webpackRequire |-> loads[l].lib.req.origin]
       /\ loads[k].stage = "resolved" /\ loads[k].strategy = UseOrigin
       /\ FullyKnown(red[loads[k].consumer][loads[k].placeholder])
       /\ loads[k].consumer # loads[l].consumer

-----------------------------------------------------------------------------
(* C25: loads of the same placeholder agree. *)

\* loads l and k are loads of one placeholder of one consumer
SamePlaceholder(l, k) ==
  /\ l # k
  /\ loads[l].consumer = loads[k].consumer
  /\ loads[l].placeholder = loads[k].placeholder

\* two module records are instances of one origin module made by translation
\* requires of one consumer and one namespace
TwiceInNamespace(ms, i, j) ==
  /\ i # j
  /\ ms[i].via.kind = "patched" /\ ms[j].via.kind = "patched"
  /\ ms[i].via.ns = ms[j].via.ns /\ ms[i].via.own = ms[j].via.own
  /\ ms[i].fmid # "" /\ ms[i].fhost = ms[j].fhost /\ ms[i].fmid = ms[j].fmid

\* the agreement of the loads in the set pairs (pairs of indexes of loads):
\* a load that completes leaves the redirection as a completed load of the
\* pair wrote it, the factories of a pair hand out the same exports, and no
\* origin module is instantiated twice in one namespace
LoadsAgree(pairs) ==
  /\ \A pair \in pairs :
       ( /\ loads[pair[1]].stage = "resolved"
         /\ FullyKnown(red[loads[pair[1]].consumer][loads[pair[1]].placeholder])
         /\ Settles(pair[2]) /\ ~Unobtainable(pair[2]) )
       => red'[loads[pair[1]].consumer][loads[pair[1]].placeholder]
            = red[loads[pair[1]].consumer][loads[pair[1]].placeholder]
  /\ \A r, n \in results' :
       ( /\ r.load > 0 /\ n.load > 0 /\ ~r.threw /\ ~n.threw
         /\ << r.load, n.load >> \in pairs )
       => r.value = n.value
  /\ \A i, j \in DOMAIN mods' : ~TwiceInNamespace(mods', i, j)

\* C25 as stated: for every interleaving, all loads of one placeholder write
\* the same redirection and hand back factories that yield the same exports,
\* and an origin module is instantiated once in a namespace.
LoadsOfOnePlaceholderAgree ==
  [][ LoadsAgree({ pair \in (DOMAIN loads) \X (DOMAIN loads) :
                     SamePlaceholder(pair[1], pair[2]) }) ]_vars

\* the same for the loads of one placeholder that the resolver answered with
\* the same shared entry
LoadsOfOneEntryAgree ==
  [][ LoadsAgree({ pair \in (DOMAIN loads) \X (DOMAIN loads) :
                     /\ SamePlaceholder(pair[1], pair[2])
                     /\ loads[pair[1]].entry = loads[pair[2]].entry }) ]_vars

\* two loads of one placeholder answered with the same entry were both
\* pending at once, both completed, and both factories were called
TwoLoadsInterleaved ==
  /\ Idle
  /\ \E l, k \in DOMAIN loads :
       /\ SamePlaceholder(l, k) /\ loads[l].entry = loads[k].entry
       /\ loads[l].stage = "resolved" /\ loads[k].stage = "resolved"
       /\ loads[l].lib.req.kind = "patched"
       /\ \E r, n \in results : r.load = l /\ n.load = k /\ ~r.threw /\ r.value = n.value


----------------------------------------------------------------------------
(* C26: a failure inside the resolution of one shared dependency -- a     *)
(* getter that rejects, an origin factory that throws while it is         *)
(* instantiated in a namespace, a missing factory or manifest -- never    *)
(* leaves the engine as an exception of a resolved factory or as a        *)
(* rejected load.                                                         *)
FailuresStayInside ==
  /\ \A r \in results : r.load > 0 => ~r.threw
  /\ \A l \in DOMAIN loads : loads[l].stage # "rejected"

\* a factory resolved under Isolate raised the exception of the origin's code
IsolatedFactoryThrew ==
  \E r \in results :
    /\ r.load > 0
    /\ r.threw
    /\ loads[r.load].strategy = Isolate
    /\ loads[r.load].marked

\* a load was rejected because the getter of its entry rejected
LoadRejectedByGetter ==
  \E l \in DOMAIN loads : loads[l].stage = "rejected" /\ GetterRejects(loads[l].entry)


----------------------------------------------------------------------------
(* C27: resolveShare keeps the shape of what the original resolver yields: *)
(* with no dependency the arguments and the resolver come back unchanged;  *)
(* otherwise the wrapped resolver yields the provider name, the scope and  *)
(* the getter of the original, with only lib, loaded and loading replaced. *)
ArgsUnchangedWithoutDependency ==
  (build.phase = "returned" /\ build.registered = NoDependency) =>
    /\ build.returned = build.args
    /\ \A i \in DOMAIN build.yielded : build.yielded[i] = NoDependency

\* the three fields every variant replaces
LoadFieldsReplaced(d) == d.lib = Undef /\ d.loaded = FALSE /\ d.loading = "mfi"

\* C27 as stated: provider name, scope and getter kept in every variant
WrappedResolverKeepsShape ==
  (world = "shape" /\ build.phase = "returned") =>
    /\ ArgsUnchangedWithoutDependency
    /\ build.registered # NoDependency =>
         /\ build.returned = [build.args EXCEPT !.resolver = "wrapped"]
         /\ \A i \in DOMAIN build.yielded :
              /\ build.yielded[i].from = build.registered.from
              /\ build.yielded[i].get = build.registered.get
              /\ build.yielded[i].scope = build.registered.scope
              /\ LoadFieldsReplaced(build.yielded[i])

\* C27 as the code has it: the first variant keeps the scope, the second
\* variant yields the one-element scope of the consumer's host name
WrappedResolverKeepsProviderAndGetter ==
  (world = "shape" /\ build.phase = "returned") =>
    /\ ArgsUnchangedWithoutDependency
    /\ build.registered # NoDependency =>
         /\ build.returned = [build.args EXCEPT !.resolver = "wrapped"]
         /\ \A i \in DOMAIN build.yielded :
              /\ build.yielded[i].from = build.registered.from
              /\ build.yielded[i].get = build.registered.get
              /\ build.yielded[i].scope =
                   IF build.variant = 2 THEN << build.ownHostName >> ELSE build.registered.scope
              /\ LoadFieldsReplaced(build.yielded[i])

\* the wrapped resolver of the second variant was called again after the
\* registered object was marked as loaded, for an object of another scope
WrappedResolverCalledTwice ==
  /\ world = "shape"
  /\ build.variant = 2
  /\ build.marked
  /\ Len(build.yielded) = 2
  /\ build.registered.scope # << build.ownHostName >>
  /\ build.shared.loaded
  /\ ~build.yielded[2].loaded


----------------------------------------------------------------------------
(* C28: the namespace of a resolution by consumer H of package P at       *)
(* version V is exactly "isolation/" + H + "/" + P + "/" + V, and every    *)
(* synthetic id created in the resolution is the namespace, "/", and the   *)
(* origin module id.                                                      *)
\* the loads that were handed a factory bound to a translation require
PatchedLoads == { l \in DOMAIN loads : loads[l].lib.req.kind = "patched" }

NamespaceWith(prefix, l) ==
  prefix \o "/" \o hostName[loads[l].consumer] \o "/" \o loads[l].entry.pkgName
         \o "/" \o loads[l].entry.version

\* every translation require carries the namespace of its load, and every
\* synthetic key of a registry (of the origin while the module is instantiated,
\* of the consumer afterwards) is such a namespace, "/", a module id of a bundle
NamespacesBuiltWith(prefix) ==
  /\ \A l \in PatchedLoads : loads[l].lib.req.ns = NamespaceWith(prefix, l)
  /\ \A i \in DOMAIN mods :
       mods[i].via.kind = "patched" =>
         \E l \in PatchedLoads : mods[i].via.ns = NamespaceWith(prefix, l)
  /\ \A h \in Hosts : \A k \in SyntheticKeys(c, h) \cup SyntheticKeys(m, h) :
       \E l \in PatchedLoads : \E origin \in Hosts : \E o \in OriginalIds(origin) :
         k = NamespaceWith(prefix, l) \o "/" \o o

\* C28 as stated: the prefix is isolation
NamespaceIsIsolationPrefixed == NamespacesBuiltWith("isolation")

\* C28 as the code has it: the literal prefix is mfi
NamespaceIsMfiPrefixed == NamespacesBuiltWith("mfi")

\* a module of H2 is being instantiated for H1 under mfi/H1/lib/1.2.0/x
SyntheticIdInUse ==
  /\ "mfi/H1/lib/1.2.0/x" \in DOMAIN c["H2"]
  /\ "mfi/H1/lib/1.2.0/x" \in DOMAIN m["H2"]
  /\ \E l \in PatchedLoads : loads[l].lib.req.ns = "mfi/H1/lib/1.2.0"


----------------------------------------------------------------------------
(* C29: for every pair of a namespace and an origin module, over any      *)
(* sequence of resolutions of one consumer (top-level or nested, repeated  *)
(* loads included), the origin factory is executed at most once and every  *)
(* resolution returns the same exports; a hit in the consumer's cache or   *)
(* in the origin's synthetic slot installs and runs no factory.            *)
\* the instances made for consumer own in namespace ns from module mid of origin
InstancesOf(ms, own, ns, origin, mid) ==
  { i \in DOMAIN ms : /\ ms[i].via.kind = "patched"
                      /\ ms[i].via.own = own /\ ms[i].via.ns = ns
                      /\ ms[i].fhost = origin /\ ms[i].fmid = mid }

\* the calls of factories that returned so far, with what each translation
\* require was asked for
TopLevelAnswers ==
  { [asked |-> Translated(loads[r.load].lib.req, loads[r.load].lib.mid), value |-> r.value] :
      r \in { s \in results : /\ s.load > 0 /\ ~s.threw
                              /\ loads[s.load].lib.req.kind = "patched" } }

InstantiatedOncePerNamespace ==
  /\ \A i, j \in DOMAIN mods : ~TwiceInNamespace(mods, i, j)
  /\ \A r1, r2 \in TopLevelAnswers :
       r1.asked = r2.asked => mods[r1.value].exports = mods[r2.value].exports

\* the step of a translation require asked for a pair that has an instance
\* creates no module record and installs no factory
CacheHitRunsNothing ==
  [][ \A t \in TranslationsNext :
        ( /\ InstancesOf(mods, t.own, t.ns, t.origin, t.mid) # {}
          /\ Idle => /\ stack' # << >>
                      /\ stack'[1].load > 0
                      /\ loads[stack'[1].load].lib.req.kind = "patched"
                      /\ t = Translated(loads[stack'[1].load].lib.req,
                                        loads[stack'[1].load].lib.mid) )
          => /\ Len(mods') = Len(mods)
             /\ \A h \in Hosts : DOMAIN m'[h] \subseteq DOMAIN m[h] ]_vars

\* C29, the nested resolutions: a require of running code that is answered
\* at once, for a pair that has an instance, is answered with that instance
NestedAnswersAgree ==
  [][ \A t \in TranslationsNext :
        ( /\ ~Idle
          /\ InstancesOf(mods, t.own, t.ns, t.origin, t.mid) # {}
          /\ Len(trace') = Len(trace) + 1
          /\ trace'[Len(trace')].what = "see" )
        => trace'[Len(trace')].dep \in InstancesOf(mods, t.own, t.ns, t.origin, t.mid) ]_vars

\* two calls of factories of one namespace were answered with one instance,
\* which was instantiated once
SecondCallServedFromCache ==
  /\ Idle
  /\ \E r1, r2 \in results :
       /\ r1 # r2 /\ r1.load > 0 /\ r2.load > 0 /\ ~r1.threw /\ ~r2.threw
       /\ r1.load # r2.load
       /\ loads[r1.load].lib.req.kind = "patched"
       /\ loads[r1.load].lib = loads[r2.load].lib
       /\ r1.value = r2.value
       /\ mods[r1.value].via.kind = "patched"


----------------------------------------------------------------------------
(* C30: every require made by the code of a module that is instantiated in *)
(* a namespace goes through a translation require of the same consumer,    *)
(* namespace and strategy; so under Isolate nothing an isolated instance   *)
(* reaches through require is an instance a registry holds in its cache    *)
(* under an original id.                                                   *)
\* the code running for a module instantiated in a namespace was handed the
\* translation require of that namespace
NamespacedCodeRequiresTranslated ==
  \A i \in DOMAIN stack :
    (stack[i].kind = "code" /\ mods[stack[i].rec].via.kind = "patched")
      => /\ stack[i].req.kind = "patched"
         /\ stack[i].req.own = mods[stack[i].rec].via.own
         /\ stack[i].req.ns = mods[stack[i].rec].via.ns
         /\ stack[i].req.strategy = mods[stack[i].rec].via.strategy
         /\ stack[i].req.origin = mods[stack[i].rec].fhost

\* the exports a registry holds under an id its bundle was built with, in a
\* module that no translation require made
OriginalSlots(h) ==
  { id \in DOMAIN c[h] : id \in OriginalIds(h) /\ mods[c[h][id]].via.kind # "patched" }

OriginalExports ==
  UNION { { mods[c[h][k]].exports : k \in OriginalSlots(h) } : h \in Hosts }

\* C30, the consequence: nothing handed to an instance made under Isolate
\* is the exports of such a module
IsolatedReachesNoOriginal ==
  \A k \in DOMAIN trace :
    (trace[k].what = "see" /\ Through(trace[k].rec, Isolate))
      => mods[trace[k].dep].exports \notin OriginalExports

\* code of an isolated instance is running and has been handed the exports
\* of another instance of its namespace
IsolatedCodeServed ==
  /\ ~Idle
  /\ Top.kind = "code"
  /\ Through(Top.rec, Isolate)
  /\ \E k \in DOMAIN trace :
       /\ trace[k].what = "see" /\ trace[k].rec = Top.rec
       /\ trace[k].dep # Top.rec
       /\ Through(trace[k].dep, Isolate)


----------------------------------------------------------------------------
(* C31: when a resolution that missed all caches completes, the consumer's *)
(* cache entry under the target id (the claimed local id, else the         *)
(* synthetic id) is the very module record the origin registry created in  *)
(* its synthetic slot, the value returned is the exports of that record,    *)
(* and when consumer and origin are different registries the origin         *)
(* registry keeps no reference to the record.                               *)
\* the keys under which the cache of registry h holds record rec
HeldUnder(cache, h, rec) == { k \in DOMAIN cache[h] : cache[h][k] = rec }

PromotedToConsumer ==
  [][ (ReturningTrans /\ Has(c[Top.host], Top.iso))
        => LET rec == c[Top.host][Top.iso]
           IN /\ Has(c'[Top.own], Top.ownKey)
              /\ c'[Top.own][Top.ownKey] = rec
              /\ ret' = mods'[rec].exports
              /\ Top.own # Top.host => HeldUnder(c', Top.host, rec) = {} ]_vars

\* a record created in the registry of one bundle is held by the cache of
\* another bundle, and by no cache of the bundle that created it
PromotedAcrossRegistries ==
  \E h \in Hosts : \E k \in DOMAIN c[h] :
    /\ mods[c[h][k]].via.kind = "patched"
    /\ mods[c[h][k]].reg # h
    /\ mods[c[h][k]].loaded
    /\ HeldUnder(c, mods[c[h][k]].reg, c[h][k]) = {}


----------------------------------------------------------------------------
(* C32: under ReuseOwn, if at least one local version of the package is    *)
(* both compatible with the origin module and already instantiated, that   *)
(* running local instance is reused, also when another compatible local    *)
(* version that is not instantiated comes earlier in the manifest order.   *)
\* the versions of own that satisfy every range recorded for the origin
\* version of uid and whose module at the path of uid is in the own cache
RunningCompatible(own, origin, uid) ==
  LET vs == pkgVersions(own, uid.pkgName)
  IN { vs[i].version : i \in
         { j \in DOMAIN vs :
             /\ \A range \in RangesIn(origin, uid.pkgName, uid.pkgVersion) :
                  semverSatisfies(vs[j].version, range)
             /\ Has(c[own], PkgModuleId(own, uid.pkgName, vs[j].version, uid.modulePath)) } }

RunningCompatibleReused ==
  [][ \A own \in ManifestHosts, origin \in ManifestHosts : \A uid \in UidEntries(origin) :
        (hostName[origin] # Undef /\ Memo(own, origin, uid) = Undef
           /\ MemoNext(own, origin, uid) # Undef) =>
          \A t \in TranslationsNext :
            ( /\ t.own = own /\ t.origin = origin /\ t.strategy = ReuseOwn
              /\ HasUid(origin, t.mid)
              /\ midToUid(origin, t.mid).pkgName = uid.pkgName
              /\ midToUid(origin, t.mid).pkgVersion = uid.pkgVersion
              /\ RunningCompatible(own, origin, midToUid(origin, t.mid)) # {} )
            => MemoNext(own, origin, uid)
                 \in RunningCompatible(own, origin, midToUid(origin, t.mid)) ]_vars

\* C32 where the code keeps it: the running version is the first compatible
\* version of the list
FirstCompatibleRunningReused ==
  [][ \A own \in ManifestHosts, origin \in ManifestHosts : \A uid \in UidEntries(origin) :
        (hostName[origin] # Undef /\ Memo(own, origin, uid) = Undef
           /\ MemoNext(own, origin, uid) # Undef) =>
          \A t \in TranslationsNext :
            ( /\ t.own = own /\ t.origin = origin /\ t.strategy = ReuseOwn
              /\ HasUid(origin, t.mid)
              /\ midToUid(origin, t.mid).pkgName = uid.pkgName
              /\ midToUid(origin, t.mid).pkgVersion = uid.pkgVersion
              /\ LoadedCompatible(St, own, origin, midToUid(origin, t.mid)) # Null )
            => MemoNext(own, origin, uid)
                 = LoadedCompatible(St, own, origin, midToUid(origin, t.mid)) ]_vars

\* the running compatible version 1.3.0 was passed over: the slot of the
\* version 1.0.0, listed first and not instantiated, was claimed
RunningVersionPassedOver ==
  /\ world = "order"
  /\ Returned
  /\ build.versions[1].version = "1.0.0"
  /\ build.ranges = <<"^1.0.0">>
  /\ Has(c["H1"], "a3")
  /\ mods[c["H1"]["a3"]].via.kind # "patched"
  /\ Memo("H1", "H2", midToUid("H2", "x")) = "1.0.0"


-----------------------------------------------------------------------------
(* C33: redirection of a placeholder inside the translation require *)

\* the code of a module that runs through a translation require is about to
\* require its next dependency
TranslationRequire ==
  /\ ~Idle
  /\ ret = NoRet
  /\ Top.kind = "code"
  /\ ~Throws(Top.fhost, Top.fmid)
  /\ Top.pc <= Len(Deps(Top))
  /\ Top.req.kind = "patched"
  /\ HasIsolation(Top.req.origin)

RequestedId == Deps(Top)[Top.pc]

\* the redirection entry of the requested id holds a target module id (any
\* module id, the number 0 included) and a registry handle
KnownRedirection ==
  /\ Has(red[Top.req.origin], RequestedId)
  /\ red[Top.req.origin][RequestedId].mid \notin {Null, Undef}
  /\ red[Top.req.origin][RequestedId].webpackRequire # Undef

\* the same with a target module id that is truthy
TruthyRedirection ==
  KnownRedirection /\ Truthy(red[Top.req.origin][RequestedId].mid)

RedirectionTarget ==
  [originModuleId |-> red[Top.req.origin][RequestedId].mid,
   originRequire |-> red[Top.req.origin][RequestedId].webpackRequire]

Unredirected == [originModuleId |-> RequestedId, originRequire |-> Top.req.origin]

\* C33: a translation require that is asked for an id whose redirection entry
\* holds a target module id (any id, 0 included) and a registry handle goes
\* on with the target id in the target registry; asked for any other id it
\* goes on with the requested id in its origin registry
PlaceholderRedirected ==
  [][ TranslationRequire
        => Required(TranslateTo(St, Top.req,
                      IF KnownRedirection THEN RedirectionTarget ELSE Unredirected)) ]_vars

\* what the code guarantees: the same for target ids that are truthy
TruthyPlaceholderRedirected ==
  [][ TranslationRequire
        => Required(TranslateTo(St, Top.req,
                      IF TruthyRedirection THEN RedirectionTarget ELSE Unredirected)) ]_vars

\* a translation require is asked for a placeholder whose target is module 0
RedirectionToModuleZero ==
  /\ TranslationRequire
  /\ KnownRedirection
  /\ red[Top.req.origin][RequestedId].mid = "0"


-----------------------------------------------------------------------------
(* C34: a factory that throws while it is instantiated under a synthetic id *)

\* the code of a module instantiated through a translation require is about
\* to throw
ThrowsUnderSyntheticId ==
  /\ ~Idle
  /\ ret = NoRet
  /\ Top.kind = "code"
  /\ Throws(Top.fhost, Top.fmid)
  /\ \E i \in DOMAIN stack : stack[i].kind = "trans"

\* the instantiations through a translation require the throw passes through
UnwoundTranslations == { i \in DOMAIN stack : stack[i].kind = "trans" }

\* C34: when the code of a module instantiated under a synthetic id throws,
\* the synthetic factory and the synthetic cache slot are gone from the origin
\* registry and the consumer's cache has no entry under the target id
ThrowLeavesRegistriesAsBefore ==
  [][ (ThrowsUnderSyntheticId /\ stack' = << >>)
        => \A i \in UnwoundTranslations :
             /\ ~Has(m'[stack[i].host], stack[i].iso)
             /\ ~Has(c'[stack[i].host], stack[i].iso)
             /\ ~Has(c'[stack[i].own], stack[i].ownKey) ]_vars

\* what the code guarantees: the consumer's cache gets no entry under a
\* target id that is not the synthetic id itself
ThrowWritesNothingToConsumer ==
  [][ (ThrowsUnderSyntheticId /\ stack' = << >>)
        => \A i \in UnwoundTranslations :
             (stack[i].own # stack[i].host \/ stack[i].ownKey # stack[i].iso)
               => ~Has(c'[stack[i].own], stack[i].ownKey) ]_vars

\* a synthetic factory is left in a registry while nothing runs
SyntheticFactoryLeftBehind ==
  /\ Idle
  /\ \E h \in Hosts : \E k \in DOMAIN m[h] : IsSynthetic(h, k)
  /\ \E r \in results : r.threw


-----------------------------------------------------------------------------
(* C35: the registered shared entry keeps the original factory *)

\* the loads whose loading promise has resolved
ResolvedLoads == { l \in DOMAIN loads : loads[l].stage = "resolved" }

\* C35: the registered object of a shared entry holds no factory or the
\* original factory of its provider, the original factory once a load of it
\* went past the getter, whatever the strategies of its consumers; a factory
\* through a translation require is held by the load of the consumer it was
\* built for only
RegisteredEntryKeepsOriginalFactory ==
  /\ \A e \in SharedEntries : shareLib[e] \in {NoLib, OriginalFactory(e)}
  /\ \A l \in ResolvedLoads :
       /\ shareLib[loads[l].entry] = OriginalFactory(loads[l].entry)
       /\ loads[l].lib.req.kind = "patched"
            => /\ loads[l].lib.req.own = loads[l].consumer
               /\ loads[l].strategy # UseOrigin
       /\ loads[l].strategy = UseOrigin => loads[l].lib = OriginalFactory(loads[l].entry)

\* one load of an entry resolved with a factory through a translation require
\* and another load of the same entry resolved with the original factory
OneEntryTwoFactories ==
  \E l1 \in ResolvedLoads, l2 \in ResolvedLoads :
    /\ loads[l1].entry = loads[l2].entry
    /\ loads[l1].lib.req.kind = "patched"
    /\ loads[l2].lib = OriginalFactory(loads[l2].entry)
    /\ shareLib[loads[l1].entry] = OriginalFactory(loads[l1].entry)


-----------------------------------------------------------------------------
(* C36: placeholders registered through earlier calls of consumes *)

\* C36: beforeLoadShare finds the placeholder id of every dependency that
\* was registered through a call of consumes, the latest or an earlier one,
\* and patches its scope with it; no such dependency is served by the
\* original factory for want of the mark
EarlierPlaceholdersIdentified ==
  world = "consumes" =>
    /\ \A id \in DOMAIN build.scope :
         id \in build.registered
           => build.scope[id] = PatchedScope(id, "H1", "default")
    /\ \A id \in DOMAIN build.served : build.served[id] = << id >>

\* what the code guarantees: a placeholder of the mapping kept by the plugin
\* is identified by the hook that runs next
LatestPlaceholdersIdentified ==
  [][ world = "consumes" =>
        \A id \in DOMAIN build.moduleToHandlerMapping :
          (id \in build.pending /\ id \notin build'.pending)
            => build'.scope[id] = PatchedScope(id, "H1", "default") ]_vars

\* a dependency registered through an earlier call of consumes is served by
\* the original factory
EarlierPlaceholderServedOriginal ==
  /\ world = "consumes"
  /\ \E id \in DOMAIN build.served :
       /\ id \in build.registered
       /\ id \notin DOMAIN build.moduleToHandlerMapping
       /\ build.served[id] = << "originalFactory" >>


-----------------------------------------------------------------------------
(* C37: no version is chosen on an empty list of ranges *)

\* the ranges recorded for version v of the package of uid in the consumer
OwnRangesOf(own, uid, v) == RangesIn(own, uid.pkgName, v)

\* version v of the consumer is compatible with the origin version of uid on
\* the evidence of a range: it satisfies the ranges recorded for the origin
\* version, of which there is one, and is instantiated; or the origin version
\* satisfies the ranges recorded for v, of which there is one, and v is not
\* instantiated
PositiveEvidence(own, origin, uid, v) ==
  \/ /\ RangesIn(origin, uid.pkgName, uid.pkgVersion) # {}
     /\ \A range \in RangesIn(origin, uid.pkgName, uid.pkgVersion) : semverSatisfies(v, range)
     /\ Has(c[own], PkgModuleId(own, uid.pkgName, v, uid.modulePath))
  \/ /\ OwnRangesOf(own, uid, v) # {}
     /\ \A range \in OwnRangesOf(own, uid, v) : semverSatisfies(uid.pkgVersion, range)
     /\ ~Has(c[own], PkgModuleId(own, uid.pkgName, v, uid.modulePath))

\* the match of the package of uid is memoized by the step, for translation t
Memoizes(own, origin, uid, t) ==
  /\ hostName[origin] # Undef
  /\ Memo(own, origin, uid) = Undef
  /\ MemoNext(own, origin, uid) # Undef
  /\ t.own = own /\ t.origin = origin /\ t.strategy = ReuseOwn
  /\ HasUid(origin, t.mid)
  /\ midToUid(origin, t.mid) = uid

\* C37: under ReuseOwn a version of the consumer other than the origin
\* version itself is chosen for an origin version only when a check over a
\* list of ranges that is not empty succeeded
ChosenOnPositiveEvidence ==
  [][ \A own \in ManifestHosts, origin \in ManifestHosts : \A uid \in UidEntries(origin) :
        \A t \in TranslationsNext :
          (Memoizes(own, origin, uid, t)
             /\ MemoNext(own, origin, uid) \notin {Null, uid.pkgVersion})
            => PositiveEvidence(own, origin, uid, MemoNext(own, origin, uid)) ]_vars

\* a version of the consumer stands in for an origin version while one of the
\* two has no recorded range and the ranges of the other exclude it
ChosenOnEmptyRanges ==
  \E own \in ManifestHosts, origin \in ManifestHosts : \E uid \in UidEntries(origin) :
    /\ hostName[origin] # Undef
    /\ Memo(own, origin, uid) \notin {Undef, Null}
    /\ uid.pkgVersion # Memo(own, origin, uid)
    /\ \/ RangesIn(origin, uid.pkgName, uid.pkgVersion) = {}
       \/ OwnRangesOf(own, uid, Memo(own, origin, uid)) = {}
    /\ \A range \in RangesIn(origin, uid.pkgName, uid.pkgVersion) :
         ~semverSatisfies(Memo(own, origin, uid), range)
    /\ \A range \in OwnRangesOf(own, uid, Memo(own, origin, uid)) :
         ~semverSatisfies(uid.pkgVersion, range)


-----------------------------------------------------------------------------
(* C38: the modules of one origin package version go to one local version *)

\* the version of package pkgName of bundle h that key k of its registry is a
\* module of; "none" for a key that is no module of the package
KeyVersion(h, k, pkgName) ==
  IF HasUid(h, k) /\ midToUid(h, k).pkgName = pkgName
  THEN midToUid(h, k).pkgVersion
  ELSE "none"

\* the keys of the cache of own that hold a module of version pkgVersion of
\* package pkgName of origin, instantiated for own under ReuseOwn
TranslatedKeys(own, origin, pkgName, pkgVersion) ==
  { k \in DOMAIN c[own] :
      /\ mods[c[own][k]].via.kind = "patched"
      /\ mods[c[own][k]].via.strategy = ReuseOwn
      /\ mods[c[own][k]].via.own = own
      /\ mods[c[own][k]].fhost = origin
      /\ HasUid(origin, mods[c[own][k]].fmid)
      /\ midToUid(origin, mods[c[own][k]].fmid).pkgName = pkgName
      /\ midToUid(origin, mods[c[own][k]].fmid).pkgVersion = pkgVersion }

\* the packages and versions in the manifest of a bundle
PackageVersions(h) == { [pkgName |-> e.pkgName, pkgVersion |-> e.pkgVersion] : e \in UidEntries(h) }

\* C38: once a resolution is over, the modules of one origin package version
\* that a consumer holds through ReuseOwn all stand in slots of one and the
\* same local version, or all in slots of none
OneLocalVersionForAll ==
  Idle =>
    \A own \in ManifestHosts, origin \in ManifestHosts : \A pv \in PackageVersions(origin) :
      \A k1, k2 \in TranslatedKeys(own, origin, pv.pkgName, pv.pkgVersion) :
        KeyVersion(own, k1, pv.pkgName) = KeyVersion(own, k2, pv.pkgName)

\* what the code guarantees: no two of them stand in slots of different
\* local versions
NoTwoLocalVersions ==
  Idle =>
    \A own \in ManifestHosts, origin \in ManifestHosts : \A pv \in PackageVersions(origin) :
      \A k1, k2 \in TranslatedKeys(own, origin, pv.pkgName, pv.pkgVersion) :
        \/ KeyVersion(own, k1, pv.pkgName) = KeyVersion(own, k2, pv.pkgName)
        \/ "none" \in {KeyVersion(own, k1, pv.pkgName), KeyVersion(own, k2, pv.pkgName)}

\* one module of an origin package version stands in the slot of a local
\* version and another module of it in a slot of no local version
SplitAcrossLocalAndNone ==
  /\ Idle
  /\ \E own \in ManifestHosts, origin \in ManifestHosts : \E pv \in PackageVersions(origin) :
       \E k1, k2 \in TranslatedKeys(own, origin, pv.pkgName, pv.pkgVersion) :
         /\ KeyVersion(own, k1, pv.pkgName) # "none"
         /\ KeyVersion(own, k2, pv.pkgName) = "none"

=============================================================================
